---- MODULE Spec2Model ----
(***************************************************************************)
(* Agentic-Council: the debate orchestration engine.                       *)
(*                                                                         *)
(* Spec       : DebateOrchestrator.run_debate driving a council through    *)
(*              opening turns, rebuttal rounds and the consensus call.     *)
(*              A state is a point where run_debate is suspended: before   *)
(*              the call, inside a backend call, returned, or failed.      *)
(* SpecFormat : PolicyLeadConsensusStrategy._format_transcript applied to  *)
(*              transcripts and character budgets drawn from bounded sets. *)
(* SpecConsensus : generate_consensus called on its own, with any council  *)
(*              and any transcript.                                        *)
(* SpecAgent  : BaseAgent.respond / respond_stream on conversations drawn  *)
(*              from a bounded set, the list handed over being fed back.   *)
(* SpecProtocol : BasicDebateProtocol built from a RoundConfig and asked    *)
(*              for its orders and its round count.                        *)
(***************************************************************************)
EXTENDS Integers, Sequences, FiniteSets, TLC

\* ---- Bounds ------------------------------------------------------------

MaxCouncil == 3
MaxRounds == 3
MaxMessages == 9
MaxFmtLen == 3
MaxBudget == 250
WindowSize == 2
MaxStrategyLen == 2
MaxConvLen == 2
MaxResponds == 3
MaxNegativeRounds == 1
MaxProtocolCalls == 2
MaxChunks == 2
MaxRoles == 3
MaxLiveMessages == 4
MaxSessionChunks == 3
MaxDebates == 2
MaxSavedLen == 2
MaxSettingsCalls == 4

\* ---- Program constants ---------------------------------------------------

\* Python None where a record is expected
None == [none |-> TRUE]

\* rebuttal_round=None, the default of _run_agent_turn: no round is given
NoRound == -1

\* "-" * 40 in _format_transcript
Separator == "----------------------------------------"

\* default of the max_chars parameter of _format_transcript
DefaultMaxChars == 6000

PolicyRoleId == "policymaker_expert"

\* DebateStage
OPENING == "opening"
REBUTTAL == "rebuttal"
CONSENSUS == "consensus"

\* str.upper() on the values of DebateStage
Upper(stage) ==
    CASE stage = OPENING -> "OPENING"
      [] stage = REBUTTAL -> "REBUTTAL"
      [] stage = CONSENSUS -> "CONSENSUS"

\* The agent classes: AgentConfig(name, role_id) and the role's system prompt.
IndianHistorianAgent ==
    [name |-> "Indian Historian", role_id |-> "indian_historian"]

ReligionExpertAgent ==
    [name |-> "Religion Expert", role_id |-> "religion_expert"]

PolicymakerExpertAgent ==
    [name |-> "Policy Analyst / Policymaker", role_id |-> PolicyRoleId]

AgentClasses == {IndianHistorianAgent, ReligionExpertAgent, PolicymakerExpertAgent}

\* BaseAgent.system_prompt: the role prompt looked up by role_id
SystemPrompt(agent) == [kind |-> "system_prompt", role_id |-> agent.role_id]

\* Texts a backend can answer with, as character sequences.
Contents == { <<>>, <<" ", "a", "b", "\n">> }

\* ---- Text helpers --------------------------------------------------------

Whitespace == {" ", "\n", "\t"}

RECURSIVE LStrip(_)
LStrip(s) ==
    IF s = <<>> THEN <<>>
    ELSE IF Head(s) \in Whitespace THEN LStrip(Tail(s)) ELSE s

RECURSIVE RStrip(_)
RStrip(s) ==
    IF s = <<>> THEN <<>>
    ELSE IF s[Len(s)] \in Whitespace THEN RStrip(SubSeq(s, 1, Len(s) - 1)) ELSE s

\* str.strip()
Strip(s) == RStrip(LStrip(s))

\* "".join(parts) for a sequence of strings
RECURSIVE Join(_)
Join(parts) ==
    IF parts = <<>> THEN "" ELSE Head(parts) \o Join(Tail(parts))

\* sep.join(parts)
RECURSIVE JoinWith(_, _)
JoinWith(parts, sep) ==
    IF parts = <<>> THEN ""
    ELSE IF Len(parts) = 1 THEN Head(parts)
    ELSE Head(parts) \o sep \o JoinWith(Tail(parts), sep)

RECURSIVE Reverse(_)
Reverse(s) == IF s = <<>> THEN <<>> ELSE Append(Reverse(Tail(s)), Head(s))

\* ---- State ---------------------------------------------------------------

VARIABLES
    council,             \* run_debate argument: the ordered list of agents
    num_rebuttal_rounds, \* RoundConfig.num_rebuttal_rounds of the protocol
    pc,                  \* where run_debate stands
    turn,                \* position (1-based) of the speaking agent in the order
    rebuttal_round,      \* r of the rebuttal loop
    transcript,          \* DebateTranscript.messages
    round_index,         \* the turn counter of run_debate
    conversation,        \* the context built for the turn in progress
    request,             \* what the backend call in progress was handed
    calls,               \* every backend call made so far, in order
    consensus,           \* the ConsensusResult, or None
    result,              \* the DebateResult returned, or None
    error,               \* the exception a backend call raised, or None
    response,            \* what the last backend call returned, or None
    fmt_pc,              \* _format_transcript: "input" or "returned"
    fmt_transcript,      \* its transcript argument
    fmt_max_chars,       \* its max_chars argument
    fmt_parts,           \* kept_lines and note at the return
    fmt_result,          \* the string returned
    agt_pc,              \* BaseAgent harness: "ready" or "unused"
    agt_agent,           \* the agent: name, role_id, model_alias
    agt_default_alias,   \* the client's default_model_alias
    agt_override,        \* the model_alias argument of the call
    agt_conversation,    \* the conversation argument of the next call
    agt_sent,            \* what the client was handed, call by call
    proto_pc,            \* BasicDebateProtocol harness: "new", "built", "unused"
    proto_config,        \* the config argument of __init__
    proto_rounds,        \* self._config.num_rebuttal_rounds
    proto_returned,      \* what the methods returned, call by call
    cli_pc,              \* LLM client harness: where the call stands
    cli_provider,        \* "ollama" or "groq"
    cli_method,          \* "complete" or "stream", or None before the call
    cli_default_alias,   \* self._default_model_alias
    cli_alias,           \* the model_alias argument
    cli_overrides,       \* the **overrides of the call: a set of <<key, value>>
    cli_requests,        \* the payloads handed to the provider's chat call
    cli_chunks,          \* the provider's chunks the generator has not read yet
    cli_yielded,         \* the fragments the generator has yielded
    cli_result,          \* what complete returned, or None
    cli_error,           \* the exception raised, or None
    fac_pc,              \* create_council harness: "input", "returned", "raised"
    fac_roles,           \* the roles argument: None or [list |-> the list]
    fac_default_alias,   \* Settings.default_model_alias
    fac_result,          \* the council returned, or None
    fac_error,           \* the exception raised, or None
    live_buffers,        \* st.session_state.expert_buffers: role_id -> text
    live_buffer,         \* the local buffer of the turn being streamed
    live_chunks,         \* the fragments this turn's stream has yielded so far
    live_debates,        \* how many times run_live_debate was called in the session
    live_used,           \* how many fragments were streamed in the session
    save_pc,             \* save_debate_result harness: "input", "saved", "unused"
    save_result,         \* its result argument, or None
    save_data,           \* the data handed to json.dump, or None
    settings_pc,         \* settings harness: "ready" or "unused"
    settings_cache,      \* _SETTINGS: None or a Settings instance
    settings_log         \* the get_settings and override_settings calls made

runVars == <<council, num_rebuttal_rounds, pc, turn, rebuttal_round, transcript,
             round_index, conversation, request, calls, consensus, result, error,
             response>>

fmtVars == <<fmt_pc, fmt_transcript, fmt_max_chars, fmt_parts, fmt_result>>

agtVars == <<agt_pc, agt_agent, agt_default_alias, agt_override, agt_conversation,
             agt_sent>>

protoVars == <<proto_pc, proto_config, proto_rounds, proto_returned>>

cliVars == <<cli_pc, cli_provider, cli_method, cli_default_alias, cli_alias,
             cli_overrides,
             cli_requests, cli_chunks, cli_yielded, cli_result, cli_error>>

facVars == <<fac_pc, fac_roles, fac_default_alias, fac_result, fac_error>>

liveVars == <<live_buffers, live_buffer, live_chunks, live_debates, live_used>>

saveVars == <<save_pc, save_result, save_data>>

settingsVars == <<settings_pc, settings_cache, settings_log>>

lateVars == <<cliVars, facVars, liveVars, saveVars, settingsVars>>

otherVars == <<fmtVars, agtVars, protoVars, lateVars>>

vars == <<runVars, fmtVars, agtVars, protoVars, lateVars>>

\* ---- BasicDebateProtocol -------------------------------------------------

\* list(council)
OpeningOrder(c) == c

RebuttalOrder_Reversed(c) == [k \in 1..Len(c) |-> c[Len(c) + 1 - k]]

\* list(council)
RebuttalOrder(c) == c

NumRebuttalRounds == num_rebuttal_rounds

\* RoundConfig(): num_rebuttal_rounds: int = 1
DefaultRoundConfig == [num_rebuttal_rounds |-> 1]

\* RoundConfig is a frozen dataclass with one int field and no validation:
\* any integer constructs one.
RoundConfigs ==
    { [num_rebuttal_rounds |-> n] : n \in (0 - MaxNegativeRounds)..MaxRounds }

\* self._config = config or RoundConfig(); a RoundConfig instance is truthy
ConfigOrDefault(config) == IF config = None THEN DefaultRoundConfig ELSE config

\* ---- BaseAgent -----------------------------------------------------------

ChatMessage(role, content) == [role |-> role, content |-> content]

WithSystemMessage_AlwaysPrepend(agent, conv_list) ==
    <<ChatMessage("system", SystemPrompt(agent))>> \o conv_list

WithSystemMessage_NoInjection(agent, conv_list) == conv_list

\* A system message with the agent's role prompt leads the list; a leading
\* system message with the same content is not duplicated.
WithSystemMessage(agent, conv_list) ==
    IF /\ conv_list # <<>>
       /\ conv_list[1].role = "system"
       /\ conv_list[1].content = SystemPrompt(agent)
    THEN conv_list
    ELSE <<ChatMessage("system", SystemPrompt(agent))>> \o conv_list

\* Python None where an Optional[str] alias is expected
NoAlias == "None"

\* a or b: None and the empty string are falsy
Or(a, b) == IF a \in {NoAlias, ""} THEN b ELSE a

\* Settings.models: the configured aliases
Models == {"gpt_oss_120b", "llama_4_scout_17b"}

\* sorted(self._models.keys())
KnownAliases == <<"gpt_oss_120b", "llama_4_scout_17b">>

\* ModelConfig.name of a configured alias
ModelName(alias) ==
    IF alias = "gpt_oss_120b"
    THEN "openai/gpt-oss-120b"
    ELSE "meta-llama/llama-4-scout-17b-16e-instruct"

\* KeyError(f"Unknown model alias '{alias}'. Known aliases: {', '.join(...)}")
UnknownAliasError(alias) ==
    [type |-> "KeyError",
     message |-> "Unknown model alias '" \o alias \o "'. Known aliases: "
                     \o JoinWith(KnownAliases, ", ")]

CallAlias_AgentFirst(model_alias, agent) == Or(agent.model_alias, model_alias)

\* alias = model_alias or self._config.model_alias
CallAlias(model_alias, agent) == Or(model_alias, agent.model_alias)

ResolveModelConfig_SilentFallback(model_alias, default_model_alias) ==
    LET alias == Or(model_alias, default_model_alias)
    IN [alias |-> IF alias \in Models THEN alias ELSE KnownAliases[1],
        outcome |-> "ok"]

\* alias = model_alias or self._default_model_alias; an alias outside
\* self._models raises KeyError
ResolveModelConfig(model_alias, default_model_alias) ==
    LET alias == Or(model_alias, default_model_alias)
    IN [alias |-> alias,
        outcome |-> IF alias \in Models THEN "ok" ELSE "KeyError"]

\* ---- DebateOrchestrator._build_conversation_for_agent --------------------

Intro_ZeroBased(agent, stage, r) ==
    [kind |-> "intro",
     stage |-> Upper(stage),
     instructions |-> IF stage = OPENING THEN "opening round" ELSE "rebuttal round",
     agent_name |-> agent.name,
     rebuttal_round |-> IF r # NoRound /\ stage = REBUTTAL THEN r ELSE NoRound]

\* The user-role instruction block: topic block, stage name, the stage's
\* task text addressed to the agent, and the 1-indexed rebuttal round when
\* the stage is REBUTTAL and a round is given.
Intro(agent, stage, r) ==
    [kind |-> "intro",
     stage |-> Upper(stage),
     instructions |-> IF stage = OPENING THEN "opening round" ELSE "rebuttal round",
     agent_name |-> agent.name,
     rebuttal_round |-> IF r # NoRound /\ stage = REBUTTAL THEN r + 1 ELSE NoRound]

\* "{speaker_name} ({stage}, #{round_index}):\n{content}"
Labelled(msg) ==
    [kind |-> "labelled",
     speaker_name |-> msg.speaker_name,
     stage |-> msg.stage,
     round_index |-> msg.round_index,
     content |-> msg.content]

TranscriptEntries_UserRole(messages) ==
    [k \in 1..Len(messages) |-> ChatMessage("user", Labelled(messages[k]))]

TranscriptEntries_DropsEmpty(messages) ==
    LET kept == SelectSeq(messages, LAMBDA m : m.content # <<>>)
    IN [k \in 1..Len(kept) |-> ChatMessage("assistant", Labelled(kept[k]))]

TranscriptEntries(messages) ==
    [k \in 1..Len(messages) |-> ChatMessage("assistant", Labelled(messages[k]))]

BuildConversationForAgent_AnyStage(messages, agent, stage, r) ==
    <<ChatMessage("user", Intro(agent, stage, r))>> \o TranscriptEntries(messages)

BuildConversationForAgent_Window(messages, agent, stage, r) ==
    <<ChatMessage("user", Intro(agent, stage, r))>>
      \o (IF stage = REBUTTAL
          THEN TranscriptEntries(
                   SubSeq(messages,
                          IF Len(messages) > WindowSize
                          THEN Len(messages) - WindowSize + 1 ELSE 1,
                          Len(messages)))
          ELSE <<>>)

BuildConversationForAgent_NewestFirst(messages, agent, stage, r) ==
    <<ChatMessage("user", Intro(agent, stage, r))>>
      \o (IF stage = REBUTTAL THEN Reverse(TranscriptEntries(messages)) ELSE <<>>)

BuildConversationForAgent(messages, agent, stage, r) ==
    <<ChatMessage("user", Intro(agent, stage, r))>>
      \o (IF stage = REBUTTAL THEN TranscriptEntries(messages) ELSE <<>>)

\* ---- PolicyLeadConsensusStrategy ----------------------------------------

SelectSummarizer_First(c) == 1

\* The loop of _select_summarizer from council position k on: the position
\* of the first agent with the policymaker role id, else position 1
\* (council[0]).
RECURSIVE SelectFrom(_, _)
SelectFrom(c, k) ==
    IF k > Len(c) THEN 1
    ELSE IF c[k].role_id = PolicyRoleId THEN k ELSE SelectFrom(c, k + 1)

SelectSummarizer(c) == SelectFrom(c, 1)

\* "[{round_index} | {STAGE} | {speaker_name}]\n{content.strip()}\n" + "-"*40 + "\n"
FormatBlock(msg) ==
    Join(<< "[", ToString(msg.round_index), " | ", Upper(msg.stage), " | ",
            msg.speaker_name, "]", "\n",
            Join(Strip(msg.content)), "\n",
            Separator, "\n" >>)

OmissionNote ==
    Join(<< "\n[Earlier parts of the debate have been omitted from this ",
            "transcript for brevity and token limits. Focus on the ",
            "arguments you see here and be explicit about uncertainty.]\n\n" >>)

RECURSIVE KeptLines_AppendFirst(_, _, _, _)
KeptLines_AppendFirst(messages, k, total_chars, max_chars) ==
    IF k = 0 THEN <<>>
    ELSE LET block == FormatBlock(messages[k]) IN
         IF total_chars + Len(block) > max_chars
         THEN <<block>>
         ELSE <<block>> \o KeptLines_AppendFirst(messages, k - 1,
                                                  total_chars + Len(block), max_chars)

RECURSIVE KeptLines_SkipsTooLong(_, _, _, _)
KeptLines_SkipsTooLong(messages, k, total_chars, max_chars) ==
    IF k = 0 THEN <<>>
    ELSE LET block == FormatBlock(messages[k]) IN
         IF total_chars + Len(block) > max_chars
         THEN KeptLines_SkipsTooLong(messages, k - 1, total_chars, max_chars)
         ELSE <<block>> \o KeptLines_SkipsTooLong(messages, k - 1,
                                                   total_chars + Len(block), max_chars)

\* The loop over reversed(transcript): message k is the next one to look at,
\* total_chars the length kept so far; the loop breaks at the first block that
\* would take the total over max_chars. Newest block first.
RECURSIVE KeptLines(_, _, _, _)
KeptLines(messages, k, total_chars, max_chars) ==
    IF k = 0 THEN <<>>
    ELSE LET block == FormatBlock(messages[k]) IN
         IF total_chars + Len(block) > max_chars
         THEN <<>>
         ELSE <<block>> \o KeptLines(messages, k - 1,
                                      total_chars + Len(block), max_chars)

\* kept_lines in chronological order and the note put in front of them
FormatTranscriptParts(messages, max_chars) ==
    LET kept_lines == Reverse(KeptLines(messages, Len(messages), 0, max_chars))
    IN [kept_lines |-> kept_lines,
        note |-> IF Len(messages) > Len(kept_lines) THEN OmissionNote ELSE ""]

FormatTranscript(messages, max_chars) ==
    LET parts == FormatTranscriptParts(messages, max_chars)
    IN parts.note \o Join(parts.kept_lines)

\* ---- DebateOrchestrator.run_debate ---------------------------------------

DebateMessage(agent, content, stage, index) ==
    [speaker_id |-> agent.role_id,
     speaker_name |-> agent.name,
     role |-> "assistant",
     content |-> content,
     stage |-> stage,
     round_index |-> index]

NextRoundIndex_Stuck(index) == index

\* round_index += 1
NextRoundIndex(index) == index + 1

Position(p, t, r) == [pc |-> p, turn |-> t, r |-> r]

RebuttalFrom_DoWhile(r) ==
    IF (r < NumRebuttalRounds \/ r = 0) /\ Len(RebuttalOrder(council)) > 0
    THEN Position(REBUTTAL, 1, r)
    ELSE Position(CONSENSUS, 0, NoRound)

\* for r in range(num_rebuttal_rounds): for agent in rebuttal_order(council),
\* entered at round r: the first rebuttal turn of round r if there is one,
\* else the consensus stage.
RebuttalFrom(r) ==
    IF r < NumRebuttalRounds /\ Len(RebuttalOrder(council)) > 0
    THEN Position(REBUTTAL, 1, r)
    ELSE Position(CONSENSUS, 0, NoRound)

\* for agent in opening_order(council), at the start of the run
FirstTurn ==
    IF Len(OpeningOrder(council)) > 0
    THEN Position(OPENING, 1, NoRound)
    ELSE RebuttalFrom(0)

AfterTurn_OffByOne(stage, t, r) ==
    IF stage = OPENING
    THEN IF t + 1 < Len(OpeningOrder(council))
         THEN Position(OPENING, t + 1, NoRound)
         ELSE RebuttalFrom(0)
    ELSE IF t < Len(RebuttalOrder(council))
         THEN Position(REBUTTAL, t + 1, r)
         ELSE RebuttalFrom(r + 1)

\* Where the loops stand once turn t of the stage (round r) has been appended.
AfterTurn(stage, t, r) ==
    IF stage = OPENING
    THEN IF t < Len(OpeningOrder(council))
         THEN Position(OPENING, t + 1, NoRound)
         ELSE RebuttalFrom(0)
    ELSE IF t < Len(RebuttalOrder(council))
         THEN Position(REBUTTAL, t + 1, r)
         ELSE RebuttalFrom(r + 1)

Order(stage) == IF stage = OPENING THEN OpeningOrder(council) ELSE RebuttalOrder(council)

CallRecord(agent, stage, conv) ==
    [role_id |-> agent.role_id, stage |-> stage, context_size |-> Len(conv)]

RunAgentTurn_Retry(pos, messages) ==
    LET agent == Order(pos.pc)[pos.turn]
        conv == BuildConversationForAgent(messages, agent, pos.pc, pos.r)
    IN /\ pc' = pos.pc
       /\ turn' = pos.turn
       /\ rebuttal_round' = pos.r
       /\ conversation' = conv
       /\ request' = [agent |-> agent, position |-> pos.turn,
                      messages |-> WithSystemMessage(agent, conv)]
       /\ calls' = Append(Append(calls, CallRecord(agent, pos.pc, conv)),
                          CallRecord(agent, pos.pc, conv))
       /\ UNCHANGED <<consensus, result>>

\* _run_agent_turn up to the backend call: build the context from the
\* transcript as it stands and hand it to agent.respond.
RunAgentTurn(pos, messages) ==
    LET agent == Order(pos.pc)[pos.turn]
        conv == BuildConversationForAgent(messages, agent, pos.pc, pos.r)
    IN /\ pc' = pos.pc
       /\ turn' = pos.turn
       /\ rebuttal_round' = pos.r
       /\ conversation' = conv
       /\ request' = [agent |-> agent, position |-> pos.turn,
                      messages |-> WithSystemMessage(agent, conv)]
       /\ calls' = Append(calls, CallRecord(agent, pos.pc, conv))
       /\ UNCHANGED <<consensus, result>>

EmptyCouncilResult_NoNote ==
    [text |-> "No council agents were available to form a consensus.",
     notes |-> ""]

\* ConsensusResult(text="No council agents ...", notes="empty_council")
EmptyCouncilResult ==
    [text |-> "No council agents were available to form a consensus.",
     notes |-> "empty_council"]

DebateResult(messages, c) == [transcript |-> messages, consensus |-> c]

GenerateConsensus_LogsCall(messages) ==
    IF council = <<>>
    THEN /\ pc' = "done"
         /\ turn' = 0
         /\ rebuttal_round' = NoRound
         /\ consensus' = EmptyCouncilResult
         /\ calls' = Append(calls, [role_id |-> "none", stage |-> CONSENSUS,
                                     context_size |-> 1])
         /\ UNCHANGED <<conversation, request>>
    ELSE LET s == SelectSummarizer(council)
             summarizer == council[s]
             conv == <<ChatMessage("user",
                          [kind |-> "consensus_instructions",
                           transcript_text |->
                               FormatTranscript(messages, DefaultMaxChars)])>>
         IN /\ pc' = CONSENSUS
            /\ turn' = 0
            /\ rebuttal_round' = NoRound
            /\ conversation' = conv
            /\ request' = [agent |-> summarizer, position |-> s,
                           messages |-> WithSystemMessage(summarizer, conv)]
            /\ calls' = Append(calls, CallRecord(summarizer, CONSENSUS, conv))
            /\ UNCHANGED consensus

GenerateConsensus_NoneWhenEmpty(messages) ==
    IF council = <<>>
    THEN /\ pc' = "done"
         /\ turn' = 0
         /\ rebuttal_round' = NoRound
         /\ consensus' = None
         /\ UNCHANGED <<conversation, request, calls>>
    ELSE LET s == SelectSummarizer(council)
             summarizer == council[s]
             conv == <<ChatMessage("user",
                          [kind |-> "consensus_instructions",
                           transcript_text |->
                               FormatTranscript(messages, DefaultMaxChars)])>>
         IN /\ pc' = CONSENSUS
            /\ turn' = 0
            /\ rebuttal_round' = NoRound
            /\ conversation' = conv
            /\ request' = [agent |-> summarizer, position |-> s,
                           messages |-> WithSystemMessage(summarizer, conv)]
            /\ calls' = Append(calls, CallRecord(summarizer, CONSENSUS, conv))
            /\ UNCHANGED consensus

\* generate_consensus up to the backend call, or to its return ("done")
\* when the council is empty.
GenerateConsensus(messages) ==
    IF council = <<>>
    THEN /\ pc' = "done"
         /\ turn' = 0
         /\ rebuttal_round' = NoRound
         /\ consensus' = EmptyCouncilResult
         /\ UNCHANGED <<conversation, request, calls>>
    ELSE LET s == SelectSummarizer(council)
             summarizer == council[s]
             conv == <<ChatMessage("user",
                          [kind |-> "consensus_instructions",
                           transcript_text |->
                               FormatTranscript(messages, DefaultMaxChars)])>>
         IN /\ pc' = CONSENSUS
            /\ turn' = 0
            /\ rebuttal_round' = NoRound
            /\ conversation' = conv
            /\ request' = [agent |-> summarizer, position |-> s,
                           messages |-> WithSystemMessage(summarizer, conv)]
            /\ calls' = Append(calls, CallRecord(summarizer, CONSENSUS, conv))
            /\ UNCHANGED consensus

\* run_debate runs on from position pos with the transcript being messages,
\* up to its next backend call or its return.
Proceed(pos, messages) ==
    IF pos.pc = CONSENSUS
    THEN /\ GenerateConsensus(messages)
         /\ result' = IF pc' = "done" THEN DebateResult(messages, consensus') ELSE result
    ELSE RunAgentTurn(pos, messages)

StartRun_ReversesCouncil ==
    /\ pc = "start"
    /\ transcript' = <<>>
    /\ round_index' = 0
    /\ Proceed(FirstTurn, <<>>)
    /\ council' = Reverse(council)
    /\ UNCHANGED <<num_rebuttal_rounds, error, response, otherVars>>

\* run_debate is called: empty transcript, counter 0, on to the first call.
StartRun ==
    /\ pc = "start"
    /\ transcript' = <<>>
    /\ round_index' = 0
    /\ Proceed(FirstTurn, <<>>)
    /\ UNCHANGED <<council, num_rebuttal_rounds, error, response, otherVars>>

TurnReturn_Prepend(content) ==
    /\ pc \in {OPENING, REBUTTAL}
    /\ LET messages == <<DebateMessage(request.agent, content, pc, round_index)>>
                            \o transcript
       IN /\ transcript' = messages
          /\ round_index' = NextRoundIndex(round_index)
          /\ Proceed(AfterTurn(pc, turn, rebuttal_round), messages)
    /\ response' = content
    /\ UNCHANGED <<council, num_rebuttal_rounds, error, otherVars>>

TurnReturn_ReversedInPlace(content) ==
    /\ pc \in {OPENING, REBUTTAL}
    /\ LET messages == Append(transcript,
                              DebateMessage(request.agent, content, pc, round_index))
           next == AfterTurn(pc, turn, rebuttal_round)
       IN /\ transcript' = IF next.pc = CONSENSUS THEN Reverse(messages) ELSE messages
          /\ round_index' = NextRoundIndex(round_index)
          /\ Proceed(next, messages)
    /\ response' = content
    /\ UNCHANGED <<council, num_rebuttal_rounds, error, otherVars>>

TurnReturn_StaleContext(content) ==
    /\ pc \in {OPENING, REBUTTAL}
    /\ LET messages == Append(transcript,
                              DebateMessage(request.agent, content, pc, round_index))
           next == AfterTurn(pc, turn, rebuttal_round)
       IN /\ transcript' = messages
          /\ round_index' = NextRoundIndex(round_index)
          /\ Proceed(next, IF next.pc = CONSENSUS THEN messages ELSE transcript)
    /\ response' = content
    /\ UNCHANGED <<council, num_rebuttal_rounds, error, otherVars>>

\* The backend answers an opening or rebuttal turn: the message is appended
\* with the current counter, the counter moves on, the loops continue.
TurnReturn(content) ==
    /\ pc \in {OPENING, REBUTTAL}
    /\ LET messages == Append(transcript,
                              DebateMessage(request.agent, content, pc, round_index))
       IN /\ transcript' = messages
          /\ round_index' = NextRoundIndex(round_index)
          /\ Proceed(AfterTurn(pc, turn, rebuttal_round), messages)
    /\ response' = content
    /\ UNCHANGED <<council, num_rebuttal_rounds, error, otherVars>>

OpeningReturn == \E content \in Contents : pc = OPENING /\ TurnReturn(content)

RebuttalReturn == \E content \in Contents : pc = REBUTTAL /\ TurnReturn(content)

ConsensusResult_NameInNote(text, summarizer) ==
    [text |-> text, notes |-> "summarizer=" \o summarizer.name]

\* ConsensusResult(text=consensus_text, notes=f"summarizer={summarizer.role_id}")
ConsensusResult(text, summarizer) ==
    [text |-> text, notes |-> "summarizer=" \o summarizer.role_id]

ConsensusReturn_Appends ==
    /\ pc = CONSENSUS
    /\ \E text \in Contents :
          LET c == ConsensusResult(text, request.agent)
              messages == Append(transcript,
                                 DebateMessage(request.agent, text, CONSENSUS, round_index))
          IN /\ consensus' = c
             /\ response' = text
             /\ transcript' = messages
             /\ result' = DebateResult(messages, c)
    /\ pc' = "done"
    /\ UNCHANGED <<council, num_rebuttal_rounds, turn, rebuttal_round,
                   round_index, conversation, request, calls, error, otherVars>>

\* The backend answers the consensus call: the ConsensusResult is made and
\* run_debate returns.
ConsensusReturn ==
    /\ pc = CONSENSUS
    /\ \E text \in Contents :
          LET c == ConsensusResult(text, request.agent)
          IN /\ consensus' = c
             /\ response' = text
             /\ result' = DebateResult(transcript, c)
    /\ pc' = "done"
    /\ UNCHANGED <<council, num_rebuttal_rounds, turn, rebuttal_round, transcript,
                   round_index, conversation, request, calls, error, otherVars>>

BackendError == [type |-> "BackendError", call |-> Len(calls)]

BackendFailure_PartialResult ==
    /\ pc \in {OPENING, REBUTTAL, CONSENSUS}
    /\ error' = BackendError
    /\ pc' = "done"
    /\ result' = DebateResult(transcript, None)
    /\ UNCHANGED <<council, num_rebuttal_rounds, turn, rebuttal_round, transcript,
                   round_index, conversation, request, calls, consensus, response,
                   otherVars>>

\* The backend call in progress raises: neither respond, _run_agent_turn,
\* generate_consensus nor run_debate catches it, so run_debate ends with the
\* exception and returns nothing.
BackendFailure ==
    /\ pc \in {OPENING, REBUTTAL, CONSENSUS}
    /\ error' = BackendError
    /\ pc' = "failed"
    /\ UNCHANGED <<council, num_rebuttal_rounds, turn, rebuttal_round, transcript,
                   round_index, conversation, request, calls, consensus, result,
                   response, otherVars>>

\* The variables of a harness that a specification does not use.
FmtUnused ==
    /\ fmt_pc = "unused"
    /\ fmt_transcript = <<>>
    /\ fmt_max_chars = 0
    /\ fmt_parts = None
    /\ fmt_result = ""

AgtUnused ==
    /\ agt_pc = "unused"
    /\ agt_agent = None
    /\ agt_default_alias = ""
    /\ agt_override = ""
    /\ agt_conversation = <<>>
    /\ agt_sent = <<>>

CliUnused ==
    /\ cli_pc = "unused"
    /\ cli_provider = ""
    /\ cli_method = None
    /\ cli_default_alias = ""
    /\ cli_alias = ""
    /\ cli_overrides = {}
    /\ cli_requests = <<>>
    /\ cli_chunks = <<>>
    /\ cli_yielded = <<>>
    /\ cli_result = None
    /\ cli_error = None

FacUnused ==
    /\ fac_pc = "unused"
    /\ fac_roles = None
    /\ fac_default_alias = ""
    /\ fac_result = None
    /\ fac_error = None

LiveUnused ==
    /\ live_buffers = <<>>
    /\ live_buffer = <<>>
    /\ live_chunks = <<>>
    /\ live_debates = 0
    /\ live_used = 0

SaveUnused ==
    /\ save_pc = "unused"
    /\ save_result = None
    /\ save_data = None

SettingsUnused ==
    /\ settings_pc = "unused"
    /\ settings_cache = None
    /\ settings_log = <<>>

LateUnused == CliUnused /\ FacUnused /\ LiveUnused /\ SaveUnused /\ SettingsUnused

ProtoUnused ==
    /\ proto_pc = "unused"
    /\ proto_config = None
    /\ proto_rounds = 0
    /\ proto_returned = <<>>

RunIdle ==
    /\ num_rebuttal_rounds = 0
    /\ pc = "unused"
    /\ turn = 0
    /\ rebuttal_round = NoRound
    /\ transcript = <<>>
    /\ round_index = 0
    /\ conversation = <<>>
    /\ request = None
    /\ calls = <<>>
    /\ consensus = None
    /\ result = None
    /\ error = None
    /\ response = None

RunUnused ==
    /\ council = <<>>
    /\ RunIdle

Councils == UNION { [1..k -> AgentClasses] : k \in 0..MaxCouncil }

Init ==
    /\ council \in Councils
    /\ num_rebuttal_rounds \in 0..MaxRounds
    /\ Len(council) * (1 + num_rebuttal_rounds) <= MaxMessages
    /\ pc = "start"
    /\ turn = 0
    /\ rebuttal_round = NoRound
    /\ transcript = <<>>
    /\ round_index = 0
    /\ conversation = <<>>
    /\ request = None
    /\ calls = <<>>
    /\ consensus = None
    /\ result = None
    /\ error = None
    /\ response = None
    /\ FmtUnused
    /\ AgtUnused
    /\ ProtoUnused
    /\ LateUnused

Next ==
    \/ StartRun
    \/ OpeningReturn
    \/ RebuttalReturn
    \/ ConsensusReturn
    \/ BackendFailure

Spec == Init /\ [][Next]_vars

\* ---- _format_transcript on its own ---------------------------------------

\* Transcripts as run_debate leaves them: message k has turn index k - 1.
FmtMessages(n) ==
    { [k \in 1..n |-> DebateMessage(speakers[k], texts[k],
                                    IF k = 1 THEN OPENING ELSE REBUTTAL, k - 1)] :
        speakers \in [1..n -> AgentClasses], texts \in [1..n -> Contents] }

FmtInit ==
    /\ RunUnused
    /\ AgtUnused
    /\ ProtoUnused
    /\ fmt_pc = "input"
    /\ fmt_transcript \in UNION { FmtMessages(n) : n \in 0..MaxFmtLen }
    /\ fmt_max_chars \in 0..MaxBudget
    /\ fmt_parts = None
    /\ fmt_result = ""
    /\ LateUnused

FormatCall ==
    /\ fmt_pc = "input"
    /\ fmt_parts' = FormatTranscriptParts(fmt_transcript, fmt_max_chars)
    /\ fmt_result' = FormatTranscript(fmt_transcript, fmt_max_chars)
    /\ fmt_pc' = "returned"
    /\ UNCHANGED <<runVars, fmt_transcript, fmt_max_chars, agtVars, protoVars,
                   lateVars>>

FmtNext == FormatCall

SpecFormat == FmtInit /\ [][FmtNext]_vars

\* ---- generate_consensus on its own ---------------------------------------

ConsInit ==
    /\ council \in Councils
    /\ num_rebuttal_rounds = 0
    /\ pc = "strategy"
    /\ turn = 0
    /\ rebuttal_round = NoRound
    /\ transcript \in UNION { FmtMessages(n) : n \in 0..MaxStrategyLen }
    /\ round_index = Len(transcript)
    /\ conversation = <<>>
    /\ request = None
    /\ calls = <<>>
    /\ consensus = None
    /\ result = None
    /\ error = None
    /\ response = None
    /\ FmtUnused
    /\ AgtUnused
    /\ ProtoUnused
    /\ LateUnused

\* generate_consensus(topic, transcript, council) is called.
StrategyCall ==
    /\ pc = "strategy"
    /\ GenerateConsensus(transcript)
    /\ UNCHANGED <<council, num_rebuttal_rounds, transcript, round_index, result,
                   error, response, otherVars>>

\* The summarizer's respond returns: generate_consensus returns the result.
StrategyReturn ==
    /\ pc = CONSENSUS
    /\ \E text \in Contents :
          /\ consensus' = ConsensusResult(text, request.agent)
          /\ response' = text
    /\ pc' = "done"
    /\ UNCHANGED <<council, num_rebuttal_rounds, turn, rebuttal_round, transcript,
                   round_index, conversation, request, calls, result, error,
                   otherVars>>

ConsNext ==
    \/ StrategyCall
    \/ StrategyReturn
    \/ BackendFailure

SpecConsensus == ConsInit /\ [][ConsNext]_vars

\* ---- BaseAgent.respond and respond_stream on their own ---------------------

\* AgentConfig.model_alias values: none, empty, a configured alias, and the
\* council factory's "gpt_oss_latest", which Settings.models does not hold
AgentAliases == {NoAlias, "llama_4_scout_17b", "gpt_oss_latest"}

OverrideAliases == {NoAlias, "", "gpt_oss_120b", "llama_4_scout_17b"}

DefaultAliases == {"gpt_oss_120b", ""}

ConfiguredAgents ==
    { [name |-> a.name, role_id |-> a.role_id, model_alias |-> m] :
          a \in AgentClasses, m \in AgentAliases }

\* Messages a caller can pass: each role prompt as a system message, one
\* role prompt sent with the user role, and an instruction block.
ConvMessages ==
    { ChatMessage("system", SystemPrompt(a)) : a \in AgentClasses }
        \cup { ChatMessage("user", SystemPrompt(PolicymakerExpertAgent)),
               ChatMessage("user", [kind |-> "intro", stage |-> "OPENING"]) }

Conversations == UNION { [1..n -> ConvMessages] : n \in 0..MaxConvLen }

AgtInit ==
    /\ RunUnused
    /\ FmtUnused
    /\ ProtoUnused
    /\ agt_pc = "ready"
    /\ agt_agent \in ConfiguredAgents
    /\ agt_default_alias \in DefaultAliases
    /\ agt_override \in OverrideAliases
    /\ agt_conversation \in Conversations
    /\ agt_sent = <<>>
    /\ LateUnused

\* The conversation of the first call made to the agent
FirstConversation ==
    IF agt_sent = <<>> THEN agt_conversation ELSE agt_sent[1].conversation

\* What the caller passes next: the list that was sent or, after a call with
\* another conversation, its first conversation again
NextConversations(messages) ==
    IF agt_conversation # FirstConversation
    THEN {messages, FirstConversation}
    ELSE {messages}

AgentCall_InsertsInPlace(method) ==
    /\ LET messages == WithSystemMessage(agt_agent, agt_conversation)
           alias == CallAlias(agt_override, agt_agent)
           config == ResolveModelConfig(alias, agt_default_alias)
       IN /\ agt_sent' = Append(agt_sent,
                                [method |-> method,
                                 conversation |-> agt_conversation,
                                 conversation_after |-> messages,
                                 messages |-> messages,
                                 model_alias |-> alias,
                                 resolved |-> config.alias,
                                 outcome |-> config.outcome])
          /\ agt_conversation' \in NextConversations(messages)
          /\ agt_pc' = IF config.outcome = "ok" THEN "ready" ELSE "failed"
    /\ UNCHANGED <<runVars, fmtVars, protoVars, lateVars,
                   agt_agent, agt_default_alias, agt_override>>

\* One call of the agent with agt_conversation and the model_alias keyword
\* agt_override: conv_list = list(conversation) copies the argument, the
\* client is handed the injected list and the alias.
AgentCall(method) ==
    /\ LET messages == WithSystemMessage(agt_agent, agt_conversation)
           alias == CallAlias(agt_override, agt_agent)
           config == ResolveModelConfig(alias, agt_default_alias)
       IN /\ agt_sent' = Append(agt_sent,
                                [method |-> method,
                                 conversation |-> agt_conversation,
                                 conversation_after |-> agt_conversation,
                                 messages |-> messages,
                                 model_alias |-> alias,
                                 resolved |-> config.alias,
                                 outcome |-> config.outcome])
          /\ agt_conversation' \in NextConversations(messages)
          /\ agt_pc' = IF config.outcome = "ok" THEN "ready" ELSE "failed"
    /\ UNCHANGED <<runVars, fmtVars, protoVars, lateVars,
                   agt_agent, agt_default_alias, agt_override>>

\* BaseAgent.respond: self._llm.complete
Respond ==
    /\ agt_pc = "ready"
    /\ Len(agt_sent) < MaxResponds
    /\ AgentCall("complete")

\* BaseAgent.respond_stream: self._llm.stream
RespondStream ==
    /\ agt_pc = "ready"
    /\ Len(agt_sent) < MaxResponds
    /\ AgentCall("stream")

AgtNext == Respond \/ RespondStream

SpecAgent == AgtInit /\ [][AgtNext]_vars

\* ---- BasicDebateProtocol on its own ----------------------------------------

ProtoInit ==
    /\ council \in Councils
    /\ RunIdle
    /\ FmtUnused
    /\ AgtUnused
    /\ proto_pc = "new"
    /\ proto_config \in RoundConfigs \cup {None}
    /\ proto_rounds = 0
    /\ proto_returned = <<>>
    /\ LateUnused

\* BasicDebateProtocol(config)
Construct ==
    /\ proto_pc = "new"
    /\ proto_pc' = "built"
    /\ proto_rounds' = ConfigOrDefault(proto_config).num_rebuttal_rounds
    /\ UNCHANGED <<runVars, fmtVars, agtVars, lateVars, proto_config, proto_returned>>

Returned(method, value) ==
    /\ proto_returned' = Append(proto_returned, [method |-> method, value |-> value])
    /\ UNCHANGED <<runVars, fmtVars, agtVars, lateVars, proto_pc, proto_config,
                   proto_rounds>>

\* protocol.opening_order(council)
OpeningOrderCall ==
    /\ proto_pc = "built"
    /\ Len(proto_returned) < MaxProtocolCalls
    /\ Returned("opening_order", OpeningOrder(council))

\* protocol.rebuttal_order(council)
RebuttalOrderCall ==
    /\ proto_pc = "built"
    /\ Len(proto_returned) < MaxProtocolCalls
    /\ Returned("rebuttal_order", RebuttalOrder(council))

\* protocol.num_rebuttal_rounds()
NumRebuttalRoundsCall ==
    /\ proto_pc = "built"
    /\ Len(proto_returned) < MaxProtocolCalls
    /\ Returned("num_rebuttal_rounds", proto_rounds)

ProtoNext ==
    Construct \/ OpeningOrderCall \/ RebuttalOrderCall \/ NumRebuttalRoundsCall

SpecProtocol == ProtoInit /\ [][ProtoNext]_vars

\* ---- OllamaLLMClient and GroqLLMClient on their own ------------------------

Providers == {"ollama", "groq"}

\* model_alias arguments: None, empty, the configured aliases, and the
\* council factory's "gpt_oss_latest"
ClientAliases == {NoAlias, "", "gpt_oss_120b", "llama_4_scout_17b", "gpt_oss_latest"}

\* COUNCIL_DEFAULT_MODEL_ALIAS: a configured alias or any other string
ClientDefaults == {"gpt_oss_120b", "llama_4_scout_17b", "mixtral"}

\* Content of a completion or of a chunk: None, empty, or text
ProviderTexts == {NoAlias, "", "a", "b"}

\* **overrides: none, or a 'stream' keyword
ClientOverrides == { {}, {<<"stream", TRUE>>}, {<<"stream", FALSE>>} }

\* overrides[key] when the key is given, else the default
OverrideOr(overrides, key, default) ==
    IF \E o \in overrides : o[1] = key
    THEN (CHOOSE o \in overrides : o[1] = key)[2]
    ELSE default

ChunkLists == UNION { [1..n -> ProviderTexts] : n \in 0..MaxChunks }

CliInit ==
    /\ RunUnused
    /\ FmtUnused
    /\ AgtUnused
    /\ ProtoUnused
    /\ cli_pc = "idle"
    /\ cli_provider \in Providers
    /\ cli_method = None
    /\ cli_default_alias \in ClientDefaults
    /\ cli_alias \in ClientAliases
    /\ cli_overrides \in ClientOverrides
    /\ cli_requests = <<>>
    /\ cli_chunks = <<>>
    /\ cli_yielded = <<>>
    /\ cli_result = None
    /\ cli_error = None
    /\ FacUnused
    /\ LiveUnused
    /\ SaveUnused
    /\ SettingsUnused

\* _build_payload: the model config is resolved first; the payload carries
\* the provider's model name and the stream flag, which both callers force.
\* Groq: payload.update(overrides) runs last, over the forced flag. Ollama:
\* a 'stream' override is read only when force_stream is None, else dropped.
BuildPayload(model_alias, overrides, force_stream) ==
    LET cfg == ResolveModelConfig(model_alias, cli_default_alias)
    IN IF cfg.outcome = "ok"
       THEN [outcome |-> "ok",
             payload |-> [model |-> ModelName(cfg.alias),
                          stream |-> IF cli_provider = "groq"
                                     THEN OverrideOr(overrides, "stream", force_stream)
                                     ELSE force_stream]]
       ELSE [outcome |-> "raise", error |-> UnknownAliasError(cfg.alias)]

CliFrame == UNCHANGED <<runVars, fmtVars, agtVars, protoVars, facVars, liveVars,
                        saveVars, settingsVars,
                        cli_provider, cli_default_alias, cli_alias, cli_overrides>>

\* complete(messages, model_alias=cli_alias, **cli_overrides): build the
\* payload, call the provider, return the content or "".
ClientComplete ==
    /\ cli_pc = "idle"
    /\ cli_method' = "complete"
    /\ LET built == BuildPayload(cli_alias, cli_overrides, FALSE)
       IN IF built.outcome = "ok"
          THEN \E content \in ProviderTexts :
                  /\ cli_requests' = Append(cli_requests, built.payload)
                  /\ cli_result' = Or(content, "")
                  /\ cli_pc' = "returned"
                  /\ UNCHANGED cli_error
          ELSE /\ cli_error' = built.error
               /\ cli_pc' = "failed"
               /\ UNCHANGED <<cli_requests, cli_result>>
    /\ UNCHANGED <<cli_chunks, cli_yielded>>
    /\ CliFrame

\* stream(messages, model_alias=cli_alias, **cli_overrides): a generator
\* function; the call makes the generator and runs none of its body.
ClientStream ==
    /\ cli_pc = "idle"
    /\ cli_method' = "stream"
    /\ cli_pc' = "generator"
    /\ UNCHANGED <<cli_requests, cli_chunks, cli_yielded, cli_result, cli_error>>
    /\ CliFrame

\* for chunk in completion_stream: text = content or ""; if text: yield text
RECURSIVE SkipEmpty(_)
SkipEmpty(chunks) ==
    IF chunks = <<>> \/ Or(Head(chunks), "") # ""
    THEN chunks
    ELSE SkipEmpty(Tail(chunks))

\* The generator runs from where it stands to its next yield or its end.
RunToYield(chunks) ==
    LET rest == SkipEmpty(chunks)
    IN IF rest = <<>>
       THEN /\ cli_pc' = "exhausted"
            /\ cli_chunks' = <<>>
            /\ UNCHANGED cli_yielded
       ELSE /\ cli_pc' = "suspended"
            /\ cli_chunks' = Tail(rest)
            /\ cli_yielded' = Append(cli_yielded, Head(rest))

\* The first next() on the generator: the payload is built and the
\* provider called here.
StreamFirstNext ==
    /\ cli_pc = "generator"
    /\ LET built == BuildPayload(cli_alias, cli_overrides, TRUE)
       IN IF built.outcome = "ok"
          THEN \E chunks \in ChunkLists :
                  /\ cli_requests' = Append(cli_requests, built.payload)
                  /\ RunToYield(chunks)
                  /\ UNCHANGED cli_error
          ELSE /\ cli_error' = built.error
               /\ cli_pc' = "failed"
               /\ UNCHANGED <<cli_requests, cli_chunks, cli_yielded>>
    /\ UNCHANGED <<cli_method, cli_result>>
    /\ CliFrame

\* A later next() on the generator
StreamResume ==
    /\ cli_pc = "suspended"
    /\ RunToYield(cli_chunks)
    /\ UNCHANGED <<cli_method, cli_requests, cli_result, cli_error>>
    /\ CliFrame

CliNext == ClientComplete \/ ClientStream \/ StreamFirstNext \/ StreamResume

SpecClient == CliInit /\ [][CliNext]_vars

\* ---- create_council --------------------------------------------------------

\* sorted(_ROLE_TO_AGENT_CLS.keys())
KnownRoles ==
    <<"anthropology_expert", "civilizational_historian", "indian_historian",
      "policymaker_expert", "religion_expert">>

\* _ROLE_TO_AGENT_CLS.get(role_id): the class registered for the role, or None
RoleToAgentCls(role_id) ==
    CASE role_id = "indian_historian" -> "IndianHistorianAgent"
      [] role_id = "civilizational_historian" -> "CivilizationalHistorianAgent"
      [] role_id = "religion_expert" -> "ReligionExpertAgent"
      [] role_id = "anthropology_expert" -> "AnthropologyExpertAgent"
      [] role_id = "policymaker_expert" -> "PolicymakerExpertAgent"
      [] OTHER -> "None"

\* Settings.council_roles
CouncilRoles ==
    <<"indian_historian", "civilizational_historian", "religion_expert",
      "anthropology_expert", "policymaker_expert">>

\* _ROLE_MODEL_DEFAULTS.get(role_id, default): every registered role has
\* "gpt_oss_latest"
RoleModelDefault(role_id, default_model_alias) ==
    IF RoleToAgentCls(role_id) # "None" THEN "gpt_oss_latest" ELSE default_model_alias

\* _resolve_model_alias: the role's alias when Settings.models holds it,
\* else the default alias
ResolveModelAlias(role_id, default_model_alias) ==
    LET alias == RoleModelDefault(role_id, default_model_alias)
    IN IF alias \notin Models THEN default_model_alias ELSE alias

\* ValueError(f"No agent class registered for role_id '{role_id}'. Known roles: ...")
UnknownRoleError(role_id) ==
    [type |-> "ValueError",
     message |-> "No agent class registered for role_id '" \o role_id
                     \o "'. Known roles: " \o JoinWith(KnownRoles, ", ")]

RECURSIVE BuildCouncil_SkipsUnknown(_, _, _)
BuildCouncil_SkipsUnknown(roles, built, default_model_alias) ==
    IF roles = <<>>
    THEN [outcome |-> "return", council |-> built]
    ELSE IF RoleToAgentCls(Head(roles)) = "None"
    THEN BuildCouncil_SkipsUnknown(Tail(roles), built, default_model_alias)
    ELSE BuildCouncil_SkipsUnknown(
             Tail(roles),
             Append(built,
                    [agent_cls |-> RoleToAgentCls(Head(roles)),
                     model_alias |-> ResolveModelAlias(Head(roles),
                                                       default_model_alias)]),
             default_model_alias)

\* for role_id in roles: raise on an unregistered role, else append
\* agent_cls(llm, model_alias=_resolve_model_alias(role_id)); return council
RECURSIVE BuildCouncil(_, _, _)
BuildCouncil(roles, built, default_model_alias) ==
    IF roles = <<>>
    THEN [outcome |-> "return", council |-> built]
    ELSE IF RoleToAgentCls(Head(roles)) = "None"
    THEN [outcome |-> "raise", error |-> UnknownRoleError(Head(roles))]
    ELSE BuildCouncil(
             Tail(roles),
             Append(built,
                    [agent_cls |-> RoleToAgentCls(Head(roles)),
                     model_alias |-> ResolveModelAlias(Head(roles),
                                                       default_model_alias)]),
             default_model_alias)

\* roles = roles or settings.council_roles: None and the empty list are falsy
RolesOrConfigured(roles) ==
    IF roles = None THEN CouncilRoles
    ELSE IF roles.list = <<>> THEN CouncilRoles
    ELSE roles.list

RoleIds == {"indian_historian", "civilizational_historian", "religion_expert",
            "anthropology_expert", "policymaker_expert", "economist"}

RoleArguments ==
    {None} \cup { [list |-> l] : l \in UNION { [1..n -> RoleIds] : n \in 0..MaxRoles } }

FacInit ==
    /\ RunUnused
    /\ FmtUnused
    /\ AgtUnused
    /\ ProtoUnused
    /\ CliUnused
    /\ fac_pc = "input"
    /\ fac_roles \in RoleArguments
    /\ fac_default_alias \in ClientDefaults
    /\ fac_result = None
    /\ fac_error = None
    /\ LiveUnused
    /\ SaveUnused
    /\ SettingsUnused

\* create_council(roles=...)
CreateCouncil ==
    /\ fac_pc = "input"
    /\ LET out == BuildCouncil(RolesOrConfigured(fac_roles), <<>>, fac_default_alias)
       IN IF out.outcome = "return"
          THEN /\ fac_pc' = "returned"
               /\ fac_result' = [council |-> out.council]
               /\ UNCHANGED fac_error
          ELSE /\ fac_pc' = "raised"
               /\ fac_error' = out.error
               /\ UNCHANGED fac_result
    /\ UNCHANGED <<runVars, fmtVars, agtVars, protoVars, cliVars, liveVars,
                   saveVars, settingsVars,
                   fac_roles, fac_default_alias>>

FacNext == CreateCouncil

SpecFactory == FacInit /\ [][FacNext]_vars

\* ---- streamlit_app._stage_label -------------------------------------------

StageLabel_ZeroBasedTurn(message, total_agents) ==
    IF message.stage = OPENING
    THEN "Opening statement #" \o ToString(message.round_index + 1)
    ELSE LET opening_count == total_agents
             round == ((message.round_index - opening_count) \div total_agents) + 1
             pos == (message.round_index - opening_count) % total_agents
         IN "Rebuttal round " \o ToString(round) \o ", turn " \o ToString(pos)

\* The label of a message, its round and turn recomputed from round_index
StageLabel(message, total_agents) ==
    IF message.stage = OPENING
    THEN "Opening statement #" \o ToString(message.round_index + 1)
    ELSE LET opening_count == total_agents
             round == ((message.round_index - opening_count) \div total_agents) + 1
             pos == ((message.round_index - opening_count) % total_agents) + 1
         IN "Rebuttal round " \o ToString(round) \o ", turn " \o ToString(pos)

\* ---- streamlit_app.run_live_debate ----------------------------------------

\* st.session_state.council: agents with distinct role ids
LiveCouncils ==
    { c \in Councils : \A i, j \in 1..Len(c) : c[i].role_id = c[j].role_id => i = j }

\* Text fragments a stream yields, as character sequences
Fragments == { <<"a">>, <<"b">> }

\* "(no response)"
NoResponse == <<"(", "n", "o", " ", "r", "e", "s", "p", "o", "n", "s", "e", ")">>

\* The intro of streamlit_app.build_conversation_for_agent
LiveIntro(agent, stage, r) ==
    [kind |-> "intro",
     stage |-> Upper(stage),
     instructions |-> IF stage = OPENING THEN "opening round" ELSE "rebuttal round",
     agent_name |-> agent.name,
     rebuttal_round |-> IF r # NoRound /\ stage = REBUTTAL THEN r + 1 ELSE NoRound]

\* for msg in transcript_messages: ChatMessage(role="assistant", content=...)
LiveTranscriptEntries(transcript_messages) ==
    [k \in 1..Len(transcript_messages) |->
        ChatMessage("assistant",
                    [kind |-> "labelled",
                     speaker_name |-> transcript_messages[k].speaker_name,
                     stage |-> transcript_messages[k].stage,
                     round_index |-> transcript_messages[k].round_index,
                     content |-> transcript_messages[k].content])]

LiveBuildConversation_AnyStage(transcript_messages, agent, stage, r) ==
    <<ChatMessage("user", LiveIntro(agent, stage, r))>>
      \o (IF transcript_messages # <<>>
          THEN LiveTranscriptEntries(transcript_messages)
          ELSE <<>>)

\* streamlit_app.build_conversation_for_agent: the intro, then the
\* transcript entries if stage == REBUTTAL and transcript_messages
LiveBuildConversation(transcript_messages, agent, stage, r) ==
    <<ChatMessage("user", LiveIntro(agent, stage, r))>>
      \o (IF stage = REBUTTAL /\ transcript_messages # <<>>
          THEN LiveTranscriptEntries(transcript_messages)
          ELSE <<>>)

\* for r in range(num_rebuttal_rounds): for agent in protocol.rebuttal_order(council)
LiveRebuttalFrom(r) ==
    IF r < num_rebuttal_rounds /\ Len(RebuttalOrder(council)) > 0
    THEN Position(REBUTTAL, 1, r)
    ELSE Position(CONSENSUS, 0, NoRound)

\* for agent in protocol.opening_order(council)
LiveFirstTurn ==
    IF Len(OpeningOrder(council)) > 0
    THEN Position(OPENING, 1, NoRound)
    ELSE LiveRebuttalFrom(0)

\* Where the loops of run_live_debate stand after turn t of the stage
LiveAfterTurn(stage, t, r) ==
    IF stage = OPENING
    THEN IF t < Len(OpeningOrder(council))
         THEN Position(OPENING, t + 1, NoRound)
         ELSE LiveRebuttalFrom(0)
    ELSE IF t < Len(RebuttalOrder(council))
         THEN Position(REBUTTAL, t + 1, r)
         ELSE LiveRebuttalFrom(r + 1)

\* The turn up to the first fragment: the context is built, the local
\* buffer is read from the session's buffer of the role, respond_stream is
\* called.
LiveRunAgentTurn(pos, messages) ==
    LET agent == Order(pos.pc)[pos.turn]
        conv == LiveBuildConversation(messages, agent, pos.pc, pos.r)
    IN /\ pc' = pos.pc
       /\ turn' = pos.turn
       /\ rebuttal_round' = pos.r
       /\ conversation' = conv
       /\ request' = [agent |-> agent, position |-> pos.turn,
                      messages |-> WithSystemMessage(agent, conv)]
       /\ live_buffer' = live_buffers[agent.role_id]
       /\ live_chunks' = <<>>

\* On to the next turn, or to consensus_strategy.generate_consensus
LiveProceed(pos, messages, log) ==
    IF pos.pc = CONSENSUS
    THEN /\ IF council = <<>>
            THEN /\ pc' = "done"
                 /\ consensus' = EmptyCouncilResult
                 /\ result' = DebateResult(messages, EmptyCouncilResult)
                 /\ calls' = log
                 /\ UNCHANGED <<conversation, request>>
            ELSE LET s == SelectSummarizer(council)
                     summarizer == council[s]
                     conv == <<ChatMessage("user",
                                  [kind |-> "consensus_instructions",
                                   transcript_text |->
                                       FormatTranscript(messages, DefaultMaxChars)])>>
                 IN /\ pc' = CONSENSUS
                    /\ conversation' = conv
                    /\ request' = [agent |-> summarizer, position |-> s,
                                   messages |-> WithSystemMessage(summarizer, conv)]
                    /\ calls' = Append(log, CallRecord(summarizer, CONSENSUS, conv))
                    /\ consensus' = None
                    /\ result' = None
         /\ turn' = 0
         /\ rebuttal_round' = NoRound
         /\ UNCHANGED <<live_buffer, live_chunks>>
    ELSE /\ LiveRunAgentTurn(pos, messages)
         /\ calls' = Append(log, CallRecord(Order(pos.pc)[pos.turn], pos.pc,
                                            LiveBuildConversation(
                                                messages, Order(pos.pc)[pos.turn],
                                                pos.pc, pos.r)))
         /\ consensus' = None
         /\ result' = None

LiveInit ==
    /\ council \in LiveCouncils
    /\ num_rebuttal_rounds \in 0..MaxRounds
    /\ Len(council) * (1 + num_rebuttal_rounds) <= MaxLiveMessages
    /\ pc = "start"
    /\ turn = 0
    /\ rebuttal_round = NoRound
    /\ transcript = <<>>
    /\ round_index = 0
    /\ conversation = <<>>
    /\ request = None
    /\ calls = <<>>
    /\ consensus = None
    /\ result = None
    /\ error = None
    /\ response = None
    /\ FmtUnused
    /\ AgtUnused
    /\ ProtoUnused
    /\ CliUnused
    /\ FacUnused
    /\ live_buffers = [r \in {council[k].role_id : k \in 1..Len(council)} |-> <<>>]
    /\ live_buffer = <<>>
    /\ live_chunks = <<>>
    /\ live_debates = 0
    /\ live_used = 0
    /\ SaveUnused
    /\ SettingsUnused

LiveFrame == UNCHANGED <<council, num_rebuttal_rounds, fmtVars, agtVars, protoVars,
                         cliVars, facVars, saveVars, settingsVars>>

\* The start button is clicked: run_live_debate starts with an empty
\* transcript; the session's buffers are what the session left in them.
LiveStart ==
    /\ pc \in {"start", "done", "failed"}
    /\ live_debates < MaxDebates
    /\ live_debates' = live_debates + 1
    /\ transcript' = <<>>
    /\ round_index' = 0
    /\ error' = None
    /\ response' = None
    /\ LiveProceed(LiveFirstTurn, <<>>, <<>>)
    /\ UNCHANGED <<live_buffers, live_used>>
    /\ LiveFrame

\* for chunk in agent.respond_stream(conv): buffer += chunk;
\* st.session_state.expert_buffers[role_id] = buffer
LiveChunk ==
    /\ pc \in {OPENING, REBUTTAL}
    /\ live_used < MaxSessionChunks
    /\ \E chunk \in Fragments :
          /\ live_buffer' = live_buffer \o chunk
          /\ live_buffers' = [live_buffers EXCEPT ![request.agent.role_id] =
                                  live_buffer \o chunk]
          /\ live_chunks' = Append(live_chunks, chunk)
    /\ live_used' = live_used + 1
    /\ UNCHANGED <<pc, turn, rebuttal_round, transcript, round_index, conversation,
                   request, calls, consensus, result, error, response,
                   live_debates>>
    /\ LiveFrame

\* The stream is exhausted: content = buffer or "(no response)", the
\* message is appended, the counter moves on, the loops continue.
LiveStreamEnd ==
    /\ pc \in {OPENING, REBUTTAL}
    /\ LET content == IF live_buffer = <<>> THEN NoResponse ELSE live_buffer
           messages == Append(transcript,
                              DebateMessage(request.agent, content, pc, round_index))
       IN /\ transcript' = messages
          /\ round_index' = round_index + 1
          /\ response' = content
          /\ LiveProceed(LiveAfterTurn(pc, turn, rebuttal_round), messages, calls)
    /\ UNCHANGED <<error, live_buffers, live_debates, live_used>>
    /\ LiveFrame

LiveNext ==
    LiveStart \/ LiveChunk \/ LiveStreamEnd \/ ConsensusReturn \/ BackendFailure

SpecLive == LiveInit /\ [][LiveNext]_vars

\* ---- save_debate_result on its own -----------------------------------------

\* DebateStage.value
StageValue(stage) ==
    CASE stage = OPENING -> "opening"
      [] stage = REBUTTAL -> "rebuttal"
      [] stage = CONSENSUS -> "consensus"

SerializeMessage_OneBasedIndex(msg) ==
    [speaker_id |-> msg.speaker_id,
     speaker_name |-> msg.speaker_name,
     role |-> msg.role,
     content |-> msg.content,
     stage |-> StageValue(msg.stage),
     round_index |-> msg.round_index + 1]

\* _serialize_message
SerializeMessage(msg) ==
    [speaker_id |-> msg.speaker_id,
     speaker_name |-> msg.speaker_name,
     role |-> msg.role,
     content |-> msg.content,
     stage |-> StageValue(msg.stage),
     round_index |-> msg.round_index]

\* The "messages" and "consensus" entries of the data save_debate_result
\* hands to json.dump (the "meta" and "topic" entries are left out); None is
\* written as null. A ConsensusResult is a plain dataclass, always truthy.
SaveData(r) ==
    [messages |-> [k \in 1..Len(r.transcript) |-> SerializeMessage(r.transcript[k])],
     consensus |-> IF r.consensus # None
                   THEN [text |-> r.consensus.text, notes |-> r.consensus.notes]
                   ELSE None]

\* DebateResult arguments: a transcript, and no consensus or a synthesizer's
\* result
SavableResults ==
    { DebateResult(messages, c) :
        messages \in UNION { FmtMessages(n) : n \in 0..MaxSavedLen },
        c \in {None}
                \cup { ConsensusResult(text, a) :
                           text \in Contents, a \in AgentClasses } }

SaveInit ==
    /\ RunUnused
    /\ FmtUnused
    /\ AgtUnused
    /\ ProtoUnused
    /\ CliUnused
    /\ FacUnused
    /\ LiveUnused
    /\ save_pc = "input"
    /\ save_result \in SavableResults
    /\ save_data = None
    /\ SettingsUnused

\* save_debate_result(result)
SaveDebateResult ==
    /\ save_pc = "input"
    /\ save_data' = SaveData(save_result)
    /\ save_pc' = "saved"
    /\ UNCHANGED <<runVars, fmtVars, agtVars, protoVars, cliVars, facVars, liveVars,
                   settingsVars, save_result>>

SaveNext == SaveDebateResult

SpecSave == SaveInit /\ [][SaveNext]_vars

\* ---- get_settings and override_settings on their own ----------------------

\* Settings instances a caller builds itself and passes to override_settings
OverrideInstances == { [origin |-> "caller", id |-> n] : n \in 1..2 }

SettingsInit ==
    /\ RunUnused
    /\ FmtUnused
    /\ AgtUnused
    /\ ProtoUnused
    /\ CliUnused
    /\ FacUnused
    /\ LiveUnused
    /\ SaveUnused
    /\ settings_pc = "ready"
    /\ settings_cache = None
    /\ settings_log = <<>>

GetSettings_NoCache ==
    /\ settings_pc = "ready"
    /\ Len(settings_log) < MaxSettingsCalls
    /\ IF settings_cache = None
       THEN \E api_key_set \in BOOLEAN :
               IF api_key_set
               THEN LET built == [origin |-> "from_env",
                                  id |-> Cardinality({i \in 1..Len(settings_log) :
                                                         settings_log[i].built}) + 1]
                    IN /\ settings_cache' = None
                       /\ settings_log' =
                              Append(settings_log,
                                     [op |-> "get_settings", outcome |-> "return",
                                      built |-> TRUE, value |-> built])
               ELSE /\ settings_log' =
                              Append(settings_log,
                                     [op |-> "get_settings", outcome |-> "raise",
                                      built |-> FALSE, value |-> None])
                    /\ UNCHANGED settings_cache
       ELSE /\ settings_log' =
                   Append(settings_log,
                          [op |-> "get_settings", outcome |-> "return",
                           built |-> FALSE, value |-> settings_cache])
            /\ UNCHANGED settings_cache
    /\ UNCHANGED <<runVars, fmtVars, agtVars, protoVars, cliVars, facVars, liveVars,
                   saveVars, settings_pc>>

\* get_settings(): when _SETTINGS is None, Settings.from_env() makes a new
\* instance, or raises RuntimeError when GROQ_API_KEY is not set and leaves
\* _SETTINGS as it was; the instance is stored and returned.
GetSettings ==
    /\ settings_pc = "ready"
    /\ Len(settings_log) < MaxSettingsCalls
    /\ IF settings_cache = None
       THEN \E api_key_set \in BOOLEAN :
               IF api_key_set
               THEN LET built == [origin |-> "from_env",
                                  id |-> Cardinality({i \in 1..Len(settings_log) :
                                                         settings_log[i].built}) + 1]
                    IN /\ settings_cache' = built
                       /\ settings_log' =
                              Append(settings_log,
                                     [op |-> "get_settings", outcome |-> "return",
                                      built |-> TRUE, value |-> built])
               ELSE /\ settings_log' =
                              Append(settings_log,
                                     [op |-> "get_settings", outcome |-> "raise",
                                      built |-> FALSE, value |-> None])
                    /\ UNCHANGED settings_cache
       ELSE /\ settings_log' =
                   Append(settings_log,
                          [op |-> "get_settings", outcome |-> "return",
                           built |-> FALSE, value |-> settings_cache])
            /\ UNCHANGED settings_cache
    /\ UNCHANGED <<runVars, fmtVars, agtVars, protoVars, cliVars, facVars, liveVars,
                   saveVars, settings_pc>>

\* override_settings(new_settings)
OverrideSettings ==
    /\ settings_pc = "ready"
    /\ Len(settings_log) < MaxSettingsCalls
    /\ \E new_settings \in OverrideInstances :
          /\ settings_cache' = new_settings
          /\ settings_log' =
                 Append(settings_log,
                        [op |-> "override_settings", outcome |-> "return",
                         built |-> FALSE, value |-> new_settings])
    /\ UNCHANGED <<runVars, fmtVars, agtVars, protoVars, cliVars, facVars, liveVars,
                   saveVars, settings_pc>>

SettingsNext == GetSettings \/ OverrideSettings

SpecSettings == SettingsInit /\ [][SettingsNext]_vars

\* ---- Properties ----------------------------------------------------------

K == Len(council)

R == num_rebuttal_rounds

CountStage(messages, stage) ==
    Cardinality({k \in 1..Len(messages) : messages[k].stage = stage})

\* C1: a run_debate that completes returns a transcript of exactly K + K*R
\* messages, for every council size K and rebuttal-round count R; the
\* consensus stage has added none.
C1_TranscriptLength ==
    pc = "done" =>
        /\ Len(result.transcript) = K + K * R
        /\ result.transcript = transcript

C1_Witness ==
    /\ pc = "done"
    /\ K >= 2
    /\ R >= 2
    /\ Len(result.transcript) = K + K * R

\* C2: in every state of a run the message at position i of the transcript
\* (counting from 0) has round_index i: the indices start at 0 and go up by
\* one, with no gap and no duplicate, across opening and rebuttal rounds.
C2_TurnIndices ==
    \A k \in 1..Len(transcript) : transcript[k].round_index = k - 1

C2_Witness ==
    /\ pc = REBUTTAL
    /\ rebuttal_round >= 1
    /\ Len(transcript) > K
    /\ transcript[Len(transcript)].round_index = Len(transcript) - 1

StageRank(p) ==
    CASE p = "start" -> 0
      [] p = OPENING -> 1
      [] p = REBUTTAL -> 2
      [] p = CONSENSUS -> 3
      [] p = "done" -> 4
      [] p = "failed" -> 4

OpeningBeforeRebuttal(messages) ==
    /\ \A k \in 1..Len(messages) : messages[k].stage \in {OPENING, REBUTTAL}
    /\ \A k, m \in 1..Len(messages) :
          messages[k].stage = OPENING /\ messages[m].stage = REBUTTAL => k < m

\* C3: every step of a run keeps the stage order OPENING, REBUTTAL round
\* 0..N-1, CONSENSUS, DONE: the stage never goes back, the first rebuttal turn
\* is in round 0 and the round number only stays or goes up by one and stays
\* below N (so N = 0 gives no rebuttal turn), the consensus stage is entered
\* only once every opening and rebuttal turn has been appended, and in the
\* transcript every opening message precedes every rebuttal message and no
\* message is tagged consensus.
C3_StageOrder ==
    [][ /\ StageRank(pc') >= StageRank(pc)
        /\ (pc' = REBUTTAL => rebuttal_round' \in 0..(R - 1))
        /\ (pc' = REBUTTAL /\ pc # REBUTTAL => rebuttal_round' = 0)
        /\ (pc' = REBUTTAL /\ pc = REBUTTAL =>
                rebuttal_round' \in {rebuttal_round, rebuttal_round + 1})
        /\ (pc' = OPENING => CountStage(transcript', REBUTTAL) = 0)
        /\ (pc' = CONSENSUS =>
                /\ CountStage(transcript', OPENING) = K
                /\ CountStage(transcript', REBUTTAL) = K * R)
        /\ OpeningBeforeRebuttal(transcript') ]_vars

C3_Witness ==
    /\ pc = "done"
    /\ result # None
    /\ K >= 2
    /\ R >= 2
    /\ CountStage(transcript, OPENING) = K
    /\ CountStage(transcript, REBUTTAL) = K * R

\* C4: the context built for an opening turn is exactly one message, the
\* user-role instruction block, whatever the transcript already holds.
C4_OpeningContext ==
    pc = OPENING =>
        /\ Len(conversation) = 1
        /\ conversation[1].role = "user"
        /\ conversation[1].content.kind = "intro"

C4_Witness ==
    /\ pc = OPENING
    /\ turn >= 2
    /\ Len(transcript) >= 1
    /\ Len(conversation) = 1

\* C5: the context built for a rebuttal turn has exactly 1 + P entries, P
\* being the length of the transcript when the turn starts.
C5_RebuttalContextSize ==
    pc = REBUTTAL => Len(conversation) = 1 + Len(transcript)

C5_Witness ==
    /\ pc = REBUTTAL
    /\ Len(transcript) > WindowSize
    /\ Len(conversation) = 1 + Len(transcript)

\* The transcript entries of a context are the n most recent messages of the
\* transcript, oldest first.
IncludesMostRecent(conv, messages, n) ==
    /\ Len(conv) = 1 + n
    /\ n <= Len(messages)
    /\ \A j \in 1..n :
          conv[1 + j] = ChatMessage("assistant",
                                    Labelled(messages[Len(messages) - n + j]))

Min(a, b) == IF a <= b THEN a ELSE b

\* C6 as stated: under a window of size W every rebuttal context has at most
\* 1 + W entries, the W most recent transcript messages.
C6_WindowedContext ==
    pc = REBUTTAL =>
        /\ Len(conversation) <= 1 + WindowSize
        /\ IncludesMostRecent(conversation, transcript,
                              Min(WindowSize, Len(transcript)))

\* C6: the orchestrator has one policy, full-transcript inclusion, and no
\* window setting: every rebuttal context holds all P messages of the
\* transcript, oldest first, so it stays within 1 + W entries exactly when
\* the transcript has at most W messages.
C6_FullTranscriptOnly ==
    pc = REBUTTAL =>
        /\ IncludesMostRecent(conversation, transcript, Len(transcript))
        /\ (Len(conversation) <= 1 + WindowSize <=> Len(transcript) <= WindowSize)

C6_Witness ==
    /\ pc = REBUTTAL
    /\ Len(transcript) > WindowSize
    /\ Len(conversation) > 1 + WindowSize
    /\ conversation[2].content.round_index = 0

Complete(messages) ==
    /\ Len(messages) = K + K * R
    /\ CountStage(messages, OPENING) = K
    /\ CountStage(messages, REBUTTAL) = K * R

\* C7: when the consensus strategy is invoked the transcript already holds
\* all K opening and K*R rebuttal messages, the strategy is given exactly that
\* transcript, and no step after the start of the consensus call changes it.
C7_ConsensusSeesFinalTranscript ==
    [][ /\ (pc' \in {CONSENSUS, "done"} /\ pc \notin {CONSENSUS, "done"} =>
                Complete(transcript'))
        /\ (pc' = CONSENSUS =>
                conversation'[1].content.transcript_text
                    = FormatTranscript(transcript', DefaultMaxChars))
        /\ (pc \in {CONSENSUS, "done"} => transcript' = transcript)
        /\ (pc' = "done" => result'.transcript = transcript') ]_vars

C7_Witness ==
    /\ pc = "done"
    /\ consensus # None
    /\ K >= 2
    /\ R >= 1
    /\ Complete(transcript)

\* C8: once a backend call has failed, run_debate has ended with that
\* failure: the failing call is the last call made (no retry, no later agent
\* or consensus call), and there is no consensus and no Debate Result.
C8_FailureAborts ==
    error # None =>
        /\ pc = "failed"
        /\ Len(calls) = error.call
        /\ consensus = None
        /\ result = None

C8_Witness ==
    /\ error # None
    /\ pc = "failed"
    /\ calls[Len(calls)].stage = REBUTTAL
    /\ Len(calls) < K + K * R + 1

RECURSIVE SumLen(_)
SumLen(lines) == IF lines = <<>> THEN 0 ELSE Len(Head(lines)) + SumLen(Tail(lines))

\* C9: the text _format_transcript returns, measured without the omission
\* note, is never longer than max_chars, and the note leads it exactly when
\* at least one message of the transcript was left out.
C9_BudgetAndNote ==
    fmt_pc = "returned" =>
        /\ fmt_parts.note \in {"", OmissionNote}
        /\ Len(fmt_result) = Len(fmt_parts.note) + SumLen(fmt_parts.kept_lines)
        /\ Len(fmt_result) - Len(fmt_parts.note) <= fmt_max_chars
        /\ (fmt_parts.note = OmissionNote
                <=> Len(fmt_parts.kept_lines) < Len(fmt_transcript))

C9_Witness ==
    /\ fmt_pc = "returned"
    /\ Len(fmt_transcript) >= 2
    /\ fmt_parts.kept_lines = <<>>
    /\ fmt_parts.note = OmissionNote
    /\ fmt_max_chars > 0

\* The council position the claim names: the first member with the
\* policymaker role id, else the first member.
ExpectedSummarizer(c) ==
    IF \E k \in 1..Len(c) : c[k].role_id = PolicyRoleId
    THEN CHOOSE k \in 1..Len(c) :
            /\ c[k].role_id = PolicyRoleId
            /\ \A m \in 1..(k - 1) : c[m].role_id # PolicyRoleId
    ELSE 1

\* C10: for a non-empty council the consensus call goes to the first member
\* with role id 'policymaker_expert', wherever it stands, and to the first
\* member when no member has that role; the consensus note names that member.
C10_SummarizerSelection ==
    /\ pc = CONSENSUS =>
          /\ K >= 1
          /\ request.position = ExpectedSummarizer(council)
          /\ request.agent = council[ExpectedSummarizer(council)]
    /\ (pc = "done" /\ K >= 1) =>
          consensus.notes
              = "summarizer=" \o council[ExpectedSummarizer(council)].role_id

C10_Witness ==
    /\ pc = CONSENSUS
    /\ K >= 3
    /\ council[1].role_id # PolicyRoleId
    /\ council[2].role_id = PolicyRoleId
    /\ council[3].role_id = PolicyRoleId
    /\ request.position = 2

\* C11: generate_consensus called with an empty council returns the fixed
\* result (text 'No council agents were available to form a consensus.',
\* notes 'empty_council') and makes no backend call, whatever the transcript.
C11_EmptyCouncilSentinel ==
    (council = <<>> /\ pc # "strategy") =>
        /\ pc = "done"
        /\ consensus = [text |-> "No council agents were available to form a consensus.",
                        notes |-> "empty_council"]
        /\ calls = <<>>
        /\ request = None
        /\ error = None

C11_Witness ==
    /\ council = <<>>
    /\ pc = "done"
    /\ Len(transcript) >= 2
    /\ consensus.notes = "empty_council"
    /\ calls = <<>>

\* C12: run_debate with an empty council, whatever the rebuttal-round count,
\* completes with an empty transcript and no backend call, and returns a
\* DebateResult whose consensus is the fixed 'no agents available' result
\* with the note 'empty_council'.
C12_EmptyCouncilRun ==
    (K = 0 /\ pc # "start") =>
        /\ pc = "done"
        /\ transcript = <<>>
        /\ calls = <<>>
        /\ error = None
        /\ result =
             [transcript |-> <<>>,
              consensus |->
                  [text |-> "No council agents were available to form a consensus.",
                   notes |-> "empty_council"]]

C12_Witness ==
    /\ K = 0
    /\ R >= 2
    /\ pc = "done"
    /\ calls = <<>>
    /\ result.consensus.notes = "empty_council"

\* C13 as stated: a ConsensusResult is made at most once in a debate, and
\* the DebateResult of an empty council has none.
C13_AbsentWhenEmpty ==
    /\ [][consensus # None => consensus' = consensus]_vars
    /\ [](pc = "done" /\ K = 0 => result.consensus = None)

\* C13: a ConsensusResult is made at most once in a debate, at the return
\* of the run; with an empty council it is not absent from the DebateResult
\* but is the fixed 'no agents available' result.
C13_OnceAndSentinelWhenEmpty ==
    /\ [][ /\ (consensus # None => consensus' = consensus)
           /\ (consensus' # consensus => pc' = "done") ]_vars
    /\ [](pc = "done" /\ K = 0 =>
            /\ result.consensus = consensus
            /\ consensus # None
            /\ consensus.notes = "empty_council")

C13_Witness ==
    /\ K = 0
    /\ pc = "done"
    /\ result.consensus # None
    /\ result.consensus.notes = "empty_council"

\* C16: a completed run with a non-empty council has exactly one consensus
\* result (none before the return): its text is what the selected
\* synthesizer's call returned and its note is "summarizer=" followed by
\* that synthesizer's role id, the role id of a council member.
C16_ConsensusResult ==
    /\ pc # "done" => consensus = None /\ result = None
    /\ (pc = "done" /\ K >= 1) =>
          /\ consensus # None
          /\ result.consensus = consensus
          /\ consensus.text = response
          /\ request.agent = council[ExpectedSummarizer(council)]
          /\ \E k \in 1..K :
                /\ k = ExpectedSummarizer(council)
                /\ consensus.notes = "summarizer=" \o council[k].role_id

C16_Witness ==
    /\ pc = "done"
    /\ K >= 3
    /\ R = 1
    /\ Len(result.transcript) = 6
    /\ consensus.text = response
    /\ consensus.notes = "summarizer=" \o request.agent.role_id

IsPrefix(a, b) == Len(a) <= Len(b) /\ SubSeq(b, 1, Len(a)) = a

\* C17: the transcript is append-only: every step leaves the transcript it
\* found as a prefix of the transcript it leaves, so an appended message is
\* never removed, moved or changed.
C17_AppendOnly ==
    [][IsPrefix(transcript, transcript')]_vars

C17_Witness ==
    /\ pc = REBUTTAL
    /\ rebuttal_round >= 1
    /\ Len(transcript) >= 4

\* C18: the transcript changes only by run_debate's append of the message
\* made from the turn's response: the steps that build a context and start a
\* call, the consensus strategy's selection, rendering and call, and a
\* failing call leave its length, order and contents as they were.
C18_OnlyAppendChangesTranscript ==
    [][ /\ (pc \in {"start", CONSENSUS} => transcript' = transcript)
        /\ (pc' = "failed" => transcript' = transcript)
        /\ (pc \in {OPENING, REBUTTAL} /\ pc' # "failed" =>
                transcript' = Append(transcript,
                                     DebateMessage(request.agent, response', pc,
                                                   round_index))) ]_vars

C18_Witness ==
    /\ pc = "done"
    /\ K >= 2
    /\ R >= 1
    /\ Len(transcript) = K + K * R
    /\ result.transcript = transcript

\* C19: with a non-empty council the speaker of the message with turn index
\* i is the council member at position i mod K, and the message is tagged
\* opening when i < K and rebuttal otherwise; a completed run therefore has
\* every agent once in the opening stage and once in each rebuttal round.
C19_SpeakersInCouncilOrder ==
    /\ \A k \in 1..Len(transcript) :
          LET i == k - 1
              member == council[(i % K) + 1]
          IN /\ transcript[k].speaker_id = member.role_id
             /\ transcript[k].speaker_name = member.name
             /\ transcript[k].stage = IF i < K THEN OPENING ELSE REBUTTAL
    /\ pc = "done" => Len(transcript) = K * (1 + R)

C19_Witness ==
    /\ pc = "done"
    /\ K >= 3
    /\ R >= 1
    /\ council[1] # council[3]
    /\ transcript[K + 1].speaker_id = council[1].role_id

\* C14: the list an agent hands to the backend starts with a system message
\* carrying the agent's role prompt; a conversation that already starts with
\* that message is sent as it is, any other gets the message put in front
\* of it, the rest unchanged and in order; and the list that was sent, passed
\* to the agent again, is sent unchanged.
C14_SystemPromptIdempotent ==
    \A i \in 1..Len(agt_sent) :
        LET sys == [role |-> "system",
                    content |-> [kind |-> "system_prompt",
                                 role_id |-> agt_agent.role_id]]
            input == agt_sent[i].conversation
            sent == agt_sent[i].messages
            n == Len(input)
        IN /\ sent[1] = sys
           /\ Len(sent) \in {n, n + 1}
           /\ SubSeq(sent, Len(sent) - n + 1, Len(sent)) = input
           /\ (Len(sent) = n) <=> (n > 0 /\ input[1] = sys)
           /\ (i > 1 /\ input = agt_sent[i - 1].messages) => sent = input

C14_Witness ==
    /\ Len(agt_sent) = 2
    /\ Len(agt_sent[1].conversation) = 2
    /\ agt_sent[1].conversation[1].role = "system"
    /\ agt_sent[1].conversation[1].content # SystemPrompt(agt_agent)
    /\ Len(agt_sent[1].messages) = 3
    /\ agt_sent[2].messages = agt_sent[1].messages

Given(alias) == alias # "None" /\ alias # ""

\* C15: the alias a respond or respond_stream call resolves is the call's
\* model_alias override when one is given, else the agent's configured alias
\* when it has one, else the client's default alias.
C15_ModelAliasPrecedence ==
    \A i \in 1..Len(agt_sent) :
        /\ agt_sent[i].method \in {"complete", "stream"}
        /\ agt_sent[i].resolved =
              IF Given(agt_override) THEN agt_override
              ELSE IF Given(agt_agent.model_alias) THEN agt_agent.model_alias
              ELSE agt_default_alias

C15_Witness ==
    /\ Len(agt_sent) = 2
    /\ agt_sent[1].method = "complete"
    /\ agt_sent[2].method = "stream"
    /\ agt_override = "gpt_oss_120b"
    /\ agt_agent.model_alias = "llama_4_scout_17b"
    /\ agt_sent[2].resolved = "gpt_oss_120b"
    /\ agt_sent[2].outcome = "ok"

\* C20: whatever RoundConfig a BasicDebateProtocol was constructed with,
\* the count num_rebuttal_rounds() returns is a non-negative integer.
C20_NonNegativeRounds ==
    \A i \in 1..Len(proto_returned) :
        proto_returned[i].method = "num_rebuttal_rounds" =>
            proto_returned[i].value \in Nat

\* C21: a complete call, or a stream once it is iterated, whose alias
\* (the model_alias argument, else the client's default) is not a configured
\* one ends with a KeyError whose message names the alias and lists the
\* known aliases, and the provider is handed no request; every request the
\* provider is handed names a configured model.
C21_UnknownAliasFails ==
    LET alias == IF cli_alias \in {"None", ""} THEN cli_default_alias ELSE cli_alias
        known == alias \in {"gpt_oss_120b", "llama_4_scout_17b"}
    IN /\ (~known /\ cli_pc \notin {"idle", "generator"}) =>
             /\ cli_pc = "failed"
             /\ cli_error =
                   [type |-> "KeyError",
                    message |-> "Unknown model alias '" \o alias
                        \o "'. Known aliases: gpt_oss_120b, llama_4_scout_17b"]
             /\ cli_requests = <<>>
             /\ cli_result = None
             /\ cli_yielded = <<>>
       /\ ~known => cli_requests = <<>>
       /\ known => cli_error = None /\ cli_pc # "failed"

C21_Witness ==
    /\ cli_pc = "failed"
    /\ cli_method = "stream"
    /\ cli_provider = "groq"
    /\ cli_alias = "gpt_oss_latest"
    /\ cli_error.type = "KeyError"
    /\ cli_requests = <<>>

RegisteredRoles ==
    {"indian_historian", "civilizational_historian", "religion_expert",
     "anthropology_expert", "policymaker_expert"}

\* C22: create_council given a role list with an unregistered role id at
\* any position raises a ValueError that names the first such id and lists
\* the known roles, and returns nothing; a list without one does not raise.
C22_UnknownRoleFails ==
    (fac_pc \in {"returned", "raised"} /\ fac_roles # None) =>
        LET roles == fac_roles.list
            unknown == { i \in 1..Len(roles) : roles[i] \notin RegisteredRoles }
        IN IF unknown # {}
           THEN LET first == CHOOSE i \in unknown : \A j \in unknown : i <= j
                IN /\ fac_pc = "raised"
                   /\ fac_result = None
                   /\ fac_error =
                        [type |-> "ValueError",
                         message |->
                             "No agent class registered for role_id '"
                             \o roles[first]
                             \o "'. Known roles: anthropology_expert, "
                             \o "civilizational_historian, indian_historian, "
                             \o "policymaker_expert, religion_expert"]
           ELSE fac_pc = "returned" /\ fac_error = None

C22_Witness ==
    /\ fac_pc = "raised"
    /\ fac_roles # None
    /\ Len(fac_roles.list) = 3
    /\ fac_roles.list[1] = "indian_historian"
    /\ fac_roles.list[2] = "policymaker_expert"
    /\ fac_roles.list[3] = "economist"
    /\ fac_result = None

\* C23: create_council returns one agent per entry of the roles argument, in
\* the order of roles, for every list passed; the configured council roles
\* are used only when roles is None.
C23_OneAgentPerRole ==
    (fac_pc = "returned" /\ fac_roles # None) =>
        /\ Len(fac_result.council) = Len(fac_roles.list)
        /\ \A i \in 1..Len(fac_roles.list) :
              fac_result.council[i].agent_cls = RoleToAgentCls(fac_roles.list[i])

\* C24: turns are strictly sequential: while a turn's call is outstanding it
\* is the only call not yet answered (every earlier call's message is in
\* the transcript), and the context of the j-th speaker (0-based) of
\* rebuttal round r holds the instruction and exactly K + r*K + j transcript
\* entries: all messages appended so far, those of the same round included.
C24_SequentialTurns ==
    /\ pc \in {OPENING, REBUTTAL, CONSENSUS, "failed"} =>
          Len(calls) = Len(transcript) + 1
    /\ pc = "start" => calls = <<>>
    /\ pc = REBUTTAL =>
          LET seen == K + rebuttal_round * K + (turn - 1)
          IN /\ Len(transcript) = seen
             /\ Len(conversation) = 1 + seen
             /\ calls[Len(calls)].context_size = 1 + seen
             /\ \A j \in 1..seen :
                   conversation[j + 1].content.round_index = j - 1

C24_Witness ==
    /\ pc = REBUTTAL
    /\ K = 2
    /\ rebuttal_round = 1
    /\ turn = 2
    /\ Len(conversation) = 6
    /\ conversation[6].content.stage = REBUTTAL

\* C25: in a rebuttal-stage context the first entry has chat role user and
\* entry j+1 is made from transcript message j: chat role assistant, the
\* message's speaker name, stage, turn index and content, in transcript order.
C25_RebuttalContextEntries ==
    pc = REBUTTAL =>
        /\ conversation[1].role = "user"
        /\ conversation[1].content.kind = "intro"
        /\ Len(conversation) = Len(transcript) + 1
        /\ \A j \in 1..Len(transcript) :
              /\ conversation[j + 1].role = "assistant"
              /\ conversation[j + 1].content.speaker_name = transcript[j].speaker_name
              /\ conversation[j + 1].content.stage = transcript[j].stage
              /\ conversation[j + 1].content.round_index = transcript[j].round_index
              /\ conversation[j + 1].content.content = transcript[j].content
        /\ SubSeq(request.messages, 2, Len(request.messages)) = conversation

C25_Witness ==
    /\ pc = REBUTTAL
    /\ Len(transcript) = 3
    /\ transcript[1].speaker_name # transcript[2].speaker_name
    /\ transcript[3].stage = REBUTTAL
    /\ conversation[4].role = "assistant"
    /\ conversation[4].content.round_index = 2

\* C26: the instruction message of a turn in rebuttal round r (0-based)
\* carries the round number r + 1, r being the number of whole rebuttal
\* rounds already in the transcript; the instruction message of an opening
\* turn carries no round number.
C26_RoundNumberInInstruction ==
    /\ pc = REBUTTAL =>
          /\ rebuttal_round = (Len(transcript) - K) \div K
          /\ conversation[1].content.stage = "REBUTTAL"
          /\ conversation[1].content.rebuttal_round = rebuttal_round + 1
    /\ pc = OPENING =>
          /\ conversation[1].content.stage = "OPENING"
          /\ conversation[1].content.rebuttal_round = -1

C26_Witness ==
    /\ pc = REBUTTAL
    /\ R = 3
    /\ rebuttal_round = 2
    /\ conversation[1].content.rebuttal_round = 3

\* C30: for the rebuttal message about to be appended with turn index i,
\* ((i - K) div K) + 1 is the round number in that turn's instruction and
\* ((i - K) mod K) + 1 is the speaker's 1-indexed position in the rebuttal
\* order; _stage_label prints these two numbers.
C30_RoundFromTurnIndex ==
    pc = REBUTTAL =>
        LET i == round_index
            round == ((i - K) \div K) + 1
            pos == ((i - K) % K) + 1
        IN /\ round = conversation[1].content.rebuttal_round
           /\ pos = turn
           /\ council[pos] = request.agent
           /\ StageLabel(DebateMessage(request.agent, <<>>, REBUTTAL, i), K)
                 = "Rebuttal round " \o ToString(rebuttal_round + 1)
                       \o ", turn " \o ToString(turn)

C30_Witness ==
    /\ pc = REBUTTAL
    /\ K = 3
    /\ round_index = 8
    /\ rebuttal_round = 1
    /\ turn = 3

\* C27: the blocks _format_transcript keeps are those of a contiguous suffix
\* of the transcript, in chronological order, and of the longest suffix that
\* fits max_chars: the block of the newest message left out would take the
\* total over max_chars, and no older message is kept even if its block fits.
C27_LongestFittingSuffix ==
    fmt_pc = "returned" =>
        LET n == Len(fmt_transcript)
            m == Len(fmt_parts.kept_lines)
        IN /\ m <= n
           /\ \A j \in 1..m :
                 fmt_parts.kept_lines[j] = FormatBlock(fmt_transcript[n - m + j])
           /\ SumLen(fmt_parts.kept_lines) <= fmt_max_chars
           /\ m < n =>
                 SumLen(fmt_parts.kept_lines)
                     + Len(FormatBlock(fmt_transcript[n - m])) > fmt_max_chars

C27_Witness ==
    /\ fmt_pc = "returned"
    /\ Len(fmt_transcript) = 3
    /\ Len(fmt_parts.kept_lines) = 1
    /\ SumLen(fmt_parts.kept_lines) + Len(FormatBlock(fmt_transcript[1]))
           <= fmt_max_chars
    /\ SumLen(fmt_parts.kept_lines) + Len(FormatBlock(fmt_transcript[2]))
           > fmt_max_chars

RECURSIVE Concat(_)
Concat(fragments) ==
    IF fragments = <<>> THEN <<>> ELSE Head(fragments) \o Concat(Tail(fragments))

\* C28: in the live run the content recorded in the transcript for a turn
\* whose stream yielded at least one fragment is the concatenation, in
\* order, of exactly the fragments that turn's stream yielded, whatever
\* earlier turns or earlier debates of the session streamed.
C28_ContentIsThisTurnsStream ==
    [][ (Len(transcript') = Len(transcript) + 1 /\ live_chunks # <<>>) =>
            transcript'[Len(transcript')].content = Concat(live_chunks) ]_vars

\* Where run_debate stands after n turns, and the counter it has then
RECURSIVE OrchestratorPosition(_)
OrchestratorPosition(n) ==
    IF n = 0 THEN FirstTurn
    ELSE LET p == OrchestratorPosition(n - 1) IN AfterTurn(p.pc, p.turn, p.r)

RECURSIVE OrchestratorIndex(_)
OrchestratorIndex(n) ==
    IF n = 0 THEN 0 ELSE NextRoundIndex(OrchestratorIndex(n - 1))

\* C29: for the same council and rebuttal-round count the live run follows
\* run_debate turn by turn: every message of its transcript has the
\* speaker, stage and turn index run_debate gives the message at that
\* position, every context has as many entries as run_debate's context for
\* that turn, it reaches the consensus strategy exactly when run_debate
\* does, and it invokes the strategy once, after the last turn.
C29_LiveFollowsOrchestrator ==
    /\ \A n \in 0..(Len(transcript) - 1) :
          LET p == OrchestratorPosition(n)
              m == transcript[n + 1]
          IN /\ p.pc \in {OPENING, REBUTTAL}
             /\ LET o == DebateMessage(Order(p.pc)[p.turn], m.content, p.pc,
                                       OrchestratorIndex(n))
                IN /\ m.speaker_id = o.speaker_id
                   /\ m.speaker_name = o.speaker_name
                   /\ m.stage = o.stage
                   /\ m.round_index = o.round_index
             /\ n + 1 <= Len(calls) =>
                   calls[n + 1] =
                       CallRecord(Order(p.pc)[p.turn], p.pc,
                                  BuildConversationForAgent(
                                      SubSeq(transcript, 1, n),
                                      Order(p.pc)[p.turn], p.pc, p.r))
    /\ pc \in {OPENING, REBUTTAL} =>
          /\ Position(pc, turn, rebuttal_round) = OrchestratorPosition(Len(transcript))
          /\ Len(conversation)
                = Len(BuildConversationForAgent(transcript, request.agent, pc,
                                                rebuttal_round))
    /\ pc \in {CONSENSUS, "done"} =>
          /\ OrchestratorPosition(Len(transcript)).pc = CONSENSUS
          /\ Len(calls) = Len(transcript) + (IF council = <<>> THEN 0 ELSE 1)
          /\ council # <<>> => calls[Len(calls)].stage = CONSENSUS
          /\ \A c \in 1..Len(transcript) : calls[c].stage # CONSENSUS
    /\ pc = "done" => result = [transcript |-> transcript, consensus |-> consensus]

C29_Witness ==
    /\ pc = "done"
    /\ live_debates = 2
    /\ Len(council) = 2
    /\ num_rebuttal_rounds = 1
    /\ Len(transcript) = 4
    /\ live_used = 3
    /\ calls[4].context_size = 4

\* C31: a completed run with a council of K >= 1 members and R rebuttal rounds
\* has made exactly K + K*R + 1 backend calls: one per agent turn and, last,
\* exactly one consensus call, which went to the selected synthesizer with a
\* conversation of a single user-role message.
C31_BackendCallCount ==
    (pc = "done" /\ K >= 1) =>
        /\ Len(calls) = K + K * R + 1
        /\ \A c \in 1..(K + K * R) : calls[c].stage \in {OPENING, REBUTTAL}
        /\ calls[Len(calls)].stage = CONSENSUS
        /\ calls[Len(calls)].role_id = council[SelectSummarizer(council)].role_id
        /\ calls[Len(calls)].context_size = 1
        /\ request.agent = council[SelectSummarizer(council)]
        /\ Len(conversation) = 1
        /\ conversation[1].role = "user"
        /\ conversation[1].content.kind = "consensus_instructions"

C31_Witness ==
    /\ pc = "done"
    /\ K = 2
    /\ R = 2
    /\ Len(calls) = 7
    /\ calls[7].stage = CONSENSUS
    /\ calls[7].role_id = PolicyRoleId
    /\ council[1].role_id # PolicyRoleId


\* C32: every message list handed to the backend during a run has exactly one
\* system message, at position 0 and equal to the calling agent's own role
\* prompt, a user message at position 1, and only assistant messages after
\* that, none for opening turns and for the consensus call.
C32_BackendMessageShape ==
    request # None =>
        LET sent == request.messages
        IN /\ Len(sent) >= 2
           /\ sent[1] = ChatMessage("system", SystemPrompt(request.agent))
           /\ Cardinality({k \in 1..Len(sent) : sent[k].role = "system"}) = 1
           /\ sent[2].role = "user"
           /\ \A k \in 3..Len(sent) : sent[k].role = "assistant"
           /\ pc \in {OPENING, CONSENSUS} => Len(sent) = 2
           /\ pc = REBUTTAL => Len(sent) = 2 + Len(transcript)

C32_Witness ==
    /\ pc = REBUTTAL
    /\ K = 2
    /\ rebuttal_round = 1
    /\ turn = 2
    /\ Len(request.messages) = 7
    /\ request.messages[7].role = "assistant"
    /\ request.agent = council[2]
    /\ council[1] # council[2]


\* C33: the council is read-only during a run: no step of run_debate, of the
\* protocol's ordering functions or of the consensus strategy adds, removes
\* or reorders council members, and the ordering functions return the same
\* order every time they are called with the same council: every call of a
\* stage goes to the member at the turn's position, round after round, and
\* every order the protocol has returned is the council's.
C33_CouncilReadOnly ==
    /\ [][council' = council]_vars
    /\ [](pc \in {OPENING, REBUTTAL} =>
              /\ Order(pc) = council
              /\ request.agent = council[turn])
    /\ [](\A k \in 1..Len(transcript) :
              transcript[k].speaker_id = council[((k - 1) % K) + 1].role_id)
    /\ [](\A k \in 1..Len(proto_returned) :
              proto_returned[k].method \in {"opening_order", "rebuttal_order"}
                  => proto_returned[k].value = council)

C33_Witness ==
    /\ pc = "done"
    /\ K = 3
    /\ R = 2
    /\ council[1] # council[2]
    /\ council[2] # council[3]
    /\ transcript[8].speaker_id = council[2].role_id
    /\ consensus # None


StructuralCall(i) ==
    IF i <= K
    THEN [role_id |-> council[i].role_id, stage |-> OPENING, context_size |-> 1]
    ELSE IF i <= K + K * R
    THEN [role_id |-> council[((i - 1) % K) + 1].role_id, stage |-> REBUTTAL,
          context_size |-> i]
    ELSE [role_id |-> council[ExpectedSummarizer(council)].role_id,
          stage |-> CONSENSUS, context_size |-> 1]

StructuralMessage(j) ==
    [speaker_id |-> council[((j - 1) % K) + 1].role_id,
     speaker_name |-> council[((j - 1) % K) + 1].name,
     stage |-> IF j <= K THEN OPENING ELSE REBUTTAL,
     round_index |-> j - 1]

\* C35: the structure of a run does not depend on what the backend answers:
\* at every step the sequence of agents called, the number of entries of each
\* turn's context, and the speaker, stage and turn index of every transcript
\* message are determined by the council, the round count and the number of
\* answers received so far, so two runs with the same council and round
\* count and different answers agree on all of them.
C35_StructureIndependentOfAnswers ==
    /\ \A i \in 1..Len(calls) : calls[i] = StructuralCall(i)
    /\ \A j \in 1..Len(transcript) :
          /\ transcript[j].speaker_id = StructuralMessage(j).speaker_id
          /\ transcript[j].speaker_name = StructuralMessage(j).speaker_name
          /\ transcript[j].stage = StructuralMessage(j).stage
          /\ transcript[j].round_index = StructuralMessage(j).round_index
    /\ pc \in {OPENING, REBUTTAL, CONSENSUS} => Len(calls) = Len(transcript) + 1
    /\ (pc = "done" /\ K >= 1) => Len(calls) = Len(transcript) + 1
    /\ pc \in {OPENING, REBUTTAL} => Len(conversation) = calls[Len(calls)].context_size

C35_Witness ==
    /\ pc = "done"
    /\ K = 2
    /\ R = 1
    /\ transcript[1].content = <<>>
    /\ transcript[2].content # <<>>
    /\ transcript[3].content = <<>>
    /\ calls[4].context_size = 4
    /\ consensus.text # <<>>


\* C36: the model alias create_council assigns to an agent is always a key of
\* the configured models: the role's preferred alias when it is configured,
\* otherwise the application's default alias, so no agent built by
\* create_council can later hit an unknown-alias error.
C36_AssignedAliasConfigured ==
    fac_pc = "returned" =>
        \A i \in 1..Len(fac_result.council) :
            LET alias == fac_result.council[i].model_alias
            IN /\ alias \in Models
               /\ alias = IF "gpt_oss_latest" \in Models
                          THEN "gpt_oss_latest" ELSE fac_default_alias
               /\ ResolveModelConfig(alias, fac_default_alias).outcome = "ok"


\* C37: on both provider clients complete always issues a non-streaming
\* provider request and stream always issues a streaming one, whatever
\* per-call overrides are passed, an override named 'stream' included.
C37_MethodFixesStreamFlag ==
    \A i \in 1..Len(cli_requests) :
        cli_requests[i].stream = (cli_method = "stream")


\* C38: the persisted debate record lists every transcript message exactly
\* once, in transcript order and with its turn index, stage, speaker and
\* content unchanged, and its consensus entry is null if and only if the
\* DebateResult has no consensus.
C38_RecordMatchesResult ==
    save_pc = "saved" =>
        /\ Len(save_data.messages) = Len(save_result.transcript)
        /\ \A k \in 1..Len(save_result.transcript) :
              LET m == save_result.transcript[k]
                  d == save_data.messages[k]
              IN /\ d.round_index = m.round_index
                 /\ d.stage = m.stage
                 /\ d.speaker_id = m.speaker_id
                 /\ d.speaker_name = m.speaker_name
                 /\ d.content = m.content
        /\ (save_data.consensus = None) <=> (save_result.consensus = None)
        /\ save_result.consensus # None =>
              /\ save_data.consensus.text = save_result.consensus.text
              /\ save_data.consensus.notes = save_result.consensus.notes

C38_Witness ==
    /\ save_pc = "saved"
    /\ Len(save_result.transcript) = 2
    /\ save_result.transcript[1].speaker_id # save_result.transcript[2].speaker_id
    /\ save_result.transcript[1].content # save_result.transcript[2].content
    /\ save_data.messages[2].round_index = 1
    /\ save_data.messages[2].stage = "rebuttal"
    /\ save_result.consensus = None
    /\ save_data.consensus = None


\* C39: over any sequence of get_settings and override_settings calls the
\* settings are built from the environment at most once, and only by a
\* get_settings call made before any override; consecutive get_settings
\* calls with no override between them return the same instance; and after
\* override_settings(s) every get_settings returns s until the next override.
C39_SettingsCachedOnce ==
    LET n == Len(settings_log)
        Overrides == {i \in 1..n : settings_log[i].op = "override_settings"}
        Gets == {i \in 1..n : /\ settings_log[i].op = "get_settings"
                               /\ settings_log[i].outcome = "return"}
        Builds == {i \in 1..n : settings_log[i].built}
        NoOverrideBetween(i, j) == \A k \in Overrides : ~(i < k /\ k < j)
    IN /\ Cardinality(Builds) <= 1
       /\ \A i \in Builds : i \in Gets /\ \A k \in Overrides : k > i
       /\ \A i, j \in Gets :
             (i < j /\ NoOverrideBetween(i, j))
                 => settings_log[i].value = settings_log[j].value
       /\ \A i \in Overrides : \A j \in (i + 1)..n :
             (settings_log[j].op = "get_settings" /\ NoOverrideBetween(i, j))
                 => /\ settings_log[j].outcome = "return"
                    /\ settings_log[j].value = settings_log[i].value

C39_Witness ==
    /\ Len(settings_log) = 4
    /\ settings_log[1].outcome = "raise"
    /\ settings_log[2].built
    /\ settings_log[3].op = "override_settings"
    /\ settings_log[4].op = "get_settings"
    /\ settings_log[4].value = settings_log[3].value
    /\ settings_log[4].value # settings_log[2].value

====
